---- MODULE Spec2Model ----
(***************************************************************************)
(* Model of the media generator: the prompts / prompt_artifacts tables of  *)
(* the shared SQLite store, the repositories that write them, the          *)
(* unattended service run (process_pending_prompts) and the GUI worker.    *)
(***************************************************************************)
EXTENDS Integers, Sequences, FiniteSets, TLC

VARIABLES
    artifact_status,        \* prompts.artifact_status, per prompt id
    error_message,          \* prompts.error_message, per prompt id (NULL or text)
    processed_at,           \* prompts.processed_at, per prompt id (NULL or time)
    writings,               \* content records of each prompt, in writing_order
    prompt_artifacts,       \* committed rows of prompt_artifacts, in insertion order
    now,                    \* wall clock
    processing_since,       \* history: when a prompt was last set to 'processing'
    pc,                     \* position of the service run and of the GUI worker thread
    cur,                    \* prompt being handled by each of them (0: none)
    artifacts,              \* records returned by generate() for the current prompt
    saved,                  \* how many of them save_artifact has stored
    exc,                    \* exception being handled by the service's except clause
    svc_prompts,            \* image_prompts + lyrics_prompts still to be looped over
    runs,                   \* service runs started so far
    invoked,                \* history: result of each collaborator invocation, per prompt
    task_queue,             \* GUI: queue.Queue of GenerationTask (prompt ids)
    after_queue,            \* GUI: callbacks scheduled with root.after(0, ...)
    is_generating,          \* GUI: batch in progress
    current_batch_total,
    current_batch_success,
    current_batch_errors,
    dialog,                 \* GUI: the message box shown last ("none": none yet)
    last_reset,             \* result of the last reset_stale_processing_prompts call
    status_call,            \* outcome of the last observed update_artifact_status call
    prompts,                \* prompts.prompt_type and prompts.created_at, and the place the
                            \* engine gives each row among rows of equal created_at
    found,                  \* the last get_pending_*_prompts call and what it returned
    txn,                    \* the db_transaction of a save_artifacts_atomic call
    config,                 \* what media_generator_config.json holds and points at
    main,                   \* the main() of the program that was launched
    lyrics_json,            \* a writings.content value of a lyrics prompt, parsed
    rendered,               \* what get_full_lyrics / get_tags_string returned for it
    write_call              \* a repository write made through get_connection(), step by step

vars == <<artifact_status, error_message, processed_at, writings, status_call, prompts, found, prompt_artifacts,
          now, processing_since, pc, cur, artifacts, saved, exc, svc_prompts, runs,
          invoked, task_queue, after_queue, is_generating,
          current_batch_total, current_batch_success, current_batch_errors,
          dialog, last_reset, txn, config, main, lyrics_json, rendered, write_call>>

dbVars == <<artifact_status, error_message, prompt_artifacts, processing_since>>
guiVars == <<task_queue, after_queue, is_generating, current_batch_total,
             current_batch_success, current_batch_errors, dialog>>

\* ---------------------------------------------------------------- bounds
NumPrompts == 2
MaxTime == 2
MaxFiles == 2
MaxRuns == 2
MaxBatch == 2
MaxRows == 3

\* ------------------------------------------------------------ vocabulary
\* SQL NULL in a timestamp column, and Python's None where a text is expected
NULL == -1
Prompts == 1..NumPrompts
Times == 0..MaxTime
Statuses == {"pending", "processing", "ready", "error"}
Workers == {"svc", "gui"}
TimeoutChoices == {1}

\* The table the orchestrators are started on: the last prompt is a lyrics
\* prompt, the others are image prompts; ids are assigned in created_at order.
PromptTypes == {"image_prompt", "lyrics_prompt"}
CanonicalPrompts ==
    [p \in Prompts |->
        [prompt_type |-> IF p = NumPrompts THEN "lyrics_prompt" ELSE "image_prompt",
         status |-> "completed",
         created_at |-> p,
         tie |-> p]]

\* prompts.prompt_type
prompt_type(p) == prompts[p].prompt_type

\* content of a writing: a JSON object, a JSON value that is not an object,
\* or text that is not JSON
ContentKinds == {"object", "nonobject", "malformed"}
WritingsChoices == {<<"object">>, <<"nonobject">>, <<"object", "malformed">>}

\* An error text: what it reports and how many characters it has
Msg(kind, len) == [kind |-> kind, len |-> len]
None == Msg("None", 0)
RESET_MESSAGE == Msg("Reset from stale processing state", 33)

\* str(e) of each exception the orchestrator can see; the exit-code message
\* carries up to the last 2000 characters of the collaborator's stderr
ShortLen == 40
StderrTail == 2000
ExitMessages == {Msg("exit_code", ShortLen), Msg("exit_code", ShortLen + StderrTail)}
TimeoutMessage == Msg("timed_out", ShortLen)
NotFoundMessage == Msg("script_not_found", ShortLen)
NoFilesMessage == Msg("no_files_generated", ShortLen)
AttributeErrorMessage == Msg("attribute_error", ShortLen)
DatabaseErrorMessage == Msg("database_error", ShortLen)
\* str(e) of an exception raised without arguments: the empty string
EmptyMessage == Msg("", 0)
TypeErrorMessage == Msg("type_error", ShortLen)
RollbackErrorMessage == Msg("rollback_error", ShortLen)

\* ------------------------------------------------------------- helpers
RECURSIVE SeqOfSet(_)
\* ascending enumeration of a finite set of integers (ORDER BY ... ASC)
SeqOfSet(S) ==
    IF S = {} THEN <<>>
    ELSE LET m == CHOOSE x \in S : \A y \in S : x <= y
         IN <<m>> \o SeqOfSet(S \ {m})

RECURSIVE Reverse(_)
Reverse(s) == IF s = <<>> THEN <<>> ELSE Reverse(Tail(s)) \o <<Head(s)>>

\* the limit both scans of process_pending_prompts pass
ServiceLimit == 10

\* A faulty engine: the place of a row in the scan changes once a query has
\* been answered
tie_rank_per_call(p) ==
    IF found.type = "none" THEN prompts[p].tie ELSE NumPrompts + 1 - prompts[p].tie

\* SQL leaves the order of rows of equal created_at to the engine; SQLite
\* emits them by their place in its scan of the table, which only a write
\* to the table can change
tie_rank(p) == prompts[p].tie

\* a < b in ORDER BY p.created_at ASC
Earlier(a, b) ==
    \/ prompts[a].created_at < prompts[b].created_at
    \/ prompts[a].created_at = prompts[b].created_at /\ tie_rank(a) < tie_rank(b)

\* A faulty query: ORDER BY p.created_at DESC
RECURSIVE OrderByCreatedAtDesc(_)
OrderByCreatedAtDesc(S) ==
    IF S = {} THEN <<>>
    ELSE LET m == CHOOSE x \in S : \A y \in S \ {x} : Earlier(y, x)
         IN <<m>> \o OrderByCreatedAtDesc(S \ {m})

RECURSIVE OrderByCreatedAt(_)
OrderByCreatedAt(S) ==
    IF S = {} THEN <<>>
    ELSE LET m == CHOOSE x \in S : \A y \in S \ {x} : Earlier(x, y)
         IN <<m>> \o OrderByCreatedAt(S \ {m})

\* LIMIT ?
Limit(rows, limit) == SubSeq(rows, 1, IF limit < Len(rows) THEN limit ELSE Len(rows))

\* PromptRepository.get_pending_image_prompts / get_pending_lyrics_prompts:
\* WHERE artifact_status = 'pending' AND prompt_type = ? ORDER BY created_at ASC
\* LIMIT ?; the writings of each returned prompt are read by a second query
\* and do not decide whether the prompt is returned
get_pending_prompts(type, limit) ==
    Limit(OrderByCreatedAt({p \in Prompts : /\ artifact_status[p] = "pending"
                                            /\ prompt_type(p) = type}),
          limit)

\* PromptRecord.get_json_prompt: the primary (last) writing if it parses,
\* else the legacy json_content (first writing) if it parses, else {}
get_json_prompt(ws) ==
    IF ws # <<>> /\ ws[Len(ws)] # "malformed" THEN ws[Len(ws)]
    ELSE IF ws = <<>> THEN "empty"
    ELSE IF ws[1] # "malformed" THEN ws[1]
    ELSE "empty"

\* ImagePromptData.from_json / LyricsPromptData.from_json: data.get(...) on a
\* value that is not a JSON object raises AttributeError
from_json_raises(data) == data = "nonobject"

\* ComfyUIWorkflowExecutor._create_output_directory
output_directory(p, artifact_type) == <<artifact_type, p, now>>

artifact_type_of(p) == IF prompt_type(p) = "image_prompt" THEN "image" ELSE "audio"

\* The ArtifactRecord built by generate() for the i-th file found in the directory
ArtifactRecord(p, i) ==
    [prompt_id |-> p,
     artifact_type |-> artifact_type_of(p),
     file_path |-> <<output_directory(p, artifact_type_of(p)), i>>]

\* ------------------------------------------------- repository operations
\* BEGIN IMMEDIATE holds the write lock of the store until COMMIT or ROLLBACK;
\* every other writer waits for it
WriteLockFree == txn.state # "open"

\* A faulty update: its UPDATE statements have no WHERE clause
update_every_row(p, status, message) ==
    /\ WriteLockFree
    /\ artifact_status' = [q \in Prompts |-> status]
    /\ error_message' = IF message # None /\ message.len > 0
                        THEN [q \in Prompts |-> message]
                        ELSE error_message
    /\ processing_since' = IF status = "processing"
                           THEN [q \in Prompts |-> now]
                           ELSE processing_since

\* PromptRepository.update_artifact_status, committed: UPDATE prompts SET ...
\* WHERE id = p, with the error_message column in the SET list only when the
\* argument is truthy (neither None nor the empty string)
update_artifact_status(p, status, message) ==
    /\ WriteLockFree
    /\ artifact_status' = [q \in Prompts |-> IF q = p THEN status ELSE artifact_status[q]]
    /\ error_message' = IF message # None /\ message.len > 0
                        THEN [q \in Prompts |-> IF q = p THEN message ELSE error_message[q]]
                        ELSE error_message
    /\ processing_since' = IF status = "processing"
                           THEN [q \in Prompts |->
                                    IF q = p THEN now ELSE processing_since[q]]
                           ELSE processing_since

\* A faulty sweep: it also takes the rows whose processed_at is exactly at
\* the cutoff
StaleRowsInclusive(timeout) ==
    {p \in Prompts : /\ artifact_status[p] = "processing"
                     /\ processed_at[p] # NULL
                     /\ processed_at[p] <= now - timeout}

\* rows selected by the WHERE clause of reset_stale_processing_prompts
StaleRows(timeout) ==
    {p \in Prompts : /\ artifact_status[p] = "processing"
                     /\ processed_at[p] # NULL
                     /\ processed_at[p] < now - timeout}

\* the UPDATE of reset_stale_processing_prompts and its rowcount, committed
reset_stale_rows(timeout) ==
    /\ artifact_status' = [p \in Prompts |->
            IF p \in StaleRows(timeout) THEN "pending" ELSE artifact_status[p]]
    /\ error_message' = [p \in Prompts |->
            IF p \in StaleRows(timeout) THEN RESET_MESSAGE ELSE error_message[p]]
    /\ last_reset' = [at |-> now, timeout |-> timeout,
                      count |-> Cardinality(StaleRows(timeout))]

\* A faulty save: the INSERT is never committed
save_artifact_uncommitted(a) ==
    /\ WriteLockFree
    /\ UNCHANGED prompt_artifacts

\* A faulty save: the INSERT replaces the rows the prompt already has
save_artifact_replacing(a) ==
    /\ WriteLockFree
    /\ prompt_artifacts' =
            Append(SelectSeq(prompt_artifacts, LAMBDA r : r.prompt_id # a.prompt_id), a)

\* ArtifactRepository.save_artifact, committed
save_artifact(a) ==
    /\ WriteLockFree
    /\ prompt_artifacts' = Append(prompt_artifacts, a)

\* force_wal_checkpoint not called yet
NoCheckpoint == [mode |-> "none", outcome |-> "none", result |-> "none"]

\* no save_artifacts_atomic call in progress
NoTransaction ==
    [state |-> "none", prompt_id |-> 0, artifacts |-> <<>>, final_status |-> "ready",
     inserted |-> <<>>, status_written |-> FALSE,
     before |-> [rows |-> 0, status |-> "pending"],
     conn |-> "none", exc |-> None, raised |-> None, rollback_ok |-> TRUE,
     checkpoint |-> NoCheckpoint]

\* no get_pending_*_prompts call observed yet
NoFind == [type |-> "none", limit |-> 0, result |-> <<>>, seen |-> <<>>, calls |-> 0]

\* no update_artifact_status call observed yet
NoCall ==
    [prompt_id |-> 0, status |-> "none", message |-> None, checkpoint |-> "none",
     raised |-> None]

\* no write through get_connection() in progress
NoWrite ==
    [op |-> "none", prompt_id |-> 0, timeout |-> 0, state |-> "none", holds_lock |-> FALSE,
     statements |-> 0, checkpoint |-> NoCheckpoint, raised |-> None, connection |-> "none"]

\* ------------------------------------------------------------------ Init
\* ---------------------------------------------------- lyrics payload
MaxSections == 2

\* a member of a JSON object: absent, or present with a value
Absent == [present |-> FALSE, value |-> ""]
Member(v) == [present |-> TRUE, value |-> v]

\* dict.get(key, default)
get(member, default) == IF member.present THEN member.value ELSE default

\* str.capitalize(): first character upper case, the others lower case
capitalize(s) ==
    CASE s = "verse" -> "Verse"
      [] s = "chorus" -> "Chorus"
      [] s = "BRIDGE" -> "Bridge"
      [] s = "" -> ""

\* A section of the structure; number NULL: the section has no 'number'
Sections ==
    [type : {"verse", "chorus", "BRIDGE"}, number : {NULL, 0, 1}, lyrics : {"a", "b"}]

RECURSIVE SeqsUpTo(_, _)
SeqsUpTo(S, n) ==
    IF n = 0 THEN {<<>>}
    ELSE LET shorter == SeqsUpTo(S, n - 1)
         IN shorter \cup {Append(q, x) : q \in shorter, x \in S}

\* "sep".join(parts)
RECURSIVE Join(_, _)
Join(parts, sep) ==
    IF parts = <<>> THEN ""
    ELSE IF Len(parts) = 1 THEN parts[1]
    ELSE parts[1] \o sep \o Join(Tail(parts), sep)

\* the truth value of section.get('number', '')
number_given(section) == section.number # NULL /\ section.number # 0

\* one element of lyrics_parts
lyrics_part(section) ==
    LET section_type == IF section.type # "" THEN capitalize(section.type) ELSE ""
        header == IF number_given(section)
                  THEN "[" \o section_type \o " " \o ToString(section.number) \o "]"
                  ELSE "[" \o section_type \o "]"
    IN header \o "\n" \o section.lyrics \o "\n"

\* LyricsPromptData.get_full_lyrics
get_full_lyrics(data) ==
    Join([i \in DOMAIN data.structure |-> lyrics_part(data.structure[i])], "\n")

\* data.get('metadata', {})
NoMetadata ==
    [key |-> Absent, time_signature |-> Absent, vocal_style |-> Absent,
     instrumentation |-> Absent]

\* LyricsPromptData.from_json
LyricsPromptData_from_json(data) ==
    LET meta == get(data.metadata, NoMetadata)
    IN [genre |-> get(data.genre, ""),
        mood |-> get(data.mood, ""),
        tempo |-> get(data.tempo, ""),
        structure |-> get(data.structure, <<>>),
        key |-> get(meta.key, ""),
        time_signature |-> get(meta.time_signature, "4/4"),
        vocal_style |-> get(meta.vocal_style, ""),
        instrumentation |-> get(meta.instrumentation, <<>>)]

\* one element of tags_parts: the line "label: value"
Tag(label, value) == [label |-> label, value |-> value]

\* A faulty rendering: the time signature is always reported
time_signature_always(data) ==
    IF data.time_signature # ""
    THEN <<Tag("Time Signature", data.time_signature)>> ELSE <<>>

\* if self.time_signature and self.time_signature != '4/4'
time_signature_part(data) ==
    IF data.time_signature # "" /\ data.time_signature # "4/4"
    THEN <<Tag("Time Signature", data.time_signature)>> ELSE <<>>

\* tags_parts of get_tags_string
tags_parts(data) ==
    (IF data.genre # "" THEN <<Tag("Genre", data.genre)>> ELSE <<>>)
    \o (IF data.mood # "" THEN <<Tag("Mood", data.mood)>> ELSE <<>>)
    \o (IF data.tempo # "" THEN <<Tag("Tempo", data.tempo)>> ELSE <<>>)
    \o (IF data.key # "" THEN <<Tag("Key", data.key)>> ELSE <<>>)
    \o time_signature_part(data)
    \o (IF data.vocal_style # "" THEN <<Tag("Vocal Style", data.vocal_style)>> ELSE <<>>)
    \o (IF data.instrumentation # <<>>
        THEN <<Tag("Instrumentation", Join(data.instrumentation, ", "))>> ELSE <<>>)

\* LyricsPromptData.get_tags_string
get_tags_string(data) ==
    Join([i \in DOMAIN tags_parts(data) |->
            tags_parts(data)[i].label \o ": " \o tags_parts(data)[i].value], "\n")

\* no payload held, nothing rendered
NoPayload ==
    [genre |-> Absent, mood |-> Absent, tempo |-> Absent, structure |-> Absent,
     metadata |-> Absent]
NotRendered == [called |-> "none", result |-> "", parts |-> <<>>]

\* ----------------------------------------------------- configuration
\* A path named by the configuration: the key is absent or empty, or the path
\* does not exist, or it exists
PathStates == {"unset", "missing", "present"}

\* the timeout above which validate_config reports "very high"
SuspiciousTimeout == 3600

\* comfyui.timeout_seconds: absent, a string, or a number
TimeoutValues ==
    {[kind |-> "none", value |-> 0], [kind |-> "string", value |-> 0]}
    \cup {[kind |-> "number", value |-> v] :
              v \in {-1, 0, 1, SuspiciousTimeout, SuspiciousTimeout + 1}}

Configs ==
    [database_path : PathStates,
     comfyui_directory : PathStates,
     python : PathStates,
     image_script : PathStates,
     output_directory : {"unset", "creatable", "uncreatable"},
     timeout_seconds : TimeoutValues]

ValidConfig ==
    [database_path |-> "present",
     comfyui_directory |-> "present",
     python |-> "present",
     image_script |-> "present",
     output_directory |-> "creatable",
     timeout_seconds |-> [kind |-> "number", value |-> 1]]

\* the issue appended for a path, if any
PathIssue(state, name) ==
    IF state = "unset" THEN <<name \o " not specified in config">>
    ELSE IF state = "missing" THEN <<name \o " not found">>
    ELSE <<>>

\* validate_config(config): the list of issues, in the order of the checks
validate_config(c) ==
    PathIssue(c.database_path, "Database")
    \o PathIssue(c.comfyui_directory, "ComfyUI directory")
    \o PathIssue(c.python, "Python executable")
    \o (IF c.comfyui_directory = "unset" THEN <<>>
        ELSE IF c.image_script = "unset" THEN <<"Image workflow script not specified in config">>
        ELSE IF c.image_script = "missing" \/ c.comfyui_directory = "missing"
        THEN <<"Image workflow script not found">>
        ELSE <<>>)
    \o (IF c.output_directory = "unset" THEN <<"Output directory not specified in config">>
        ELSE IF c.output_directory = "uncreatable" THEN <<"Cannot create output directory">>
        ELSE <<>>)
    \o (LET timeout == c.timeout_seconds
        IN IF timeout.kind = "none" THEN <<"Workflow timeout not specified in config">>
           ELSE IF timeout.kind # "number" THEN <<"Workflow timeout must be a number">>
           ELSE IF timeout.value <= 0 THEN <<"Workflow timeout must be positive">>
           ELSE IF timeout.value > SuspiciousTimeout THEN <<"Workflow timeout is very high">>
           ELSE <<>>)

\* main() before it has run, and main() of a program that passed validation
NotStarted == [program |-> "none", state |-> "not_started", issues |-> <<>>, exit_code |-> NULL]
Launched == [program |-> "any", state |-> "running", issues |-> <<>>, exit_code |-> NULL]

\* The state after the producer has created the prompts and before any
\* component of this repository has touched them
FreshStore ==
    /\ prompts = CanonicalPrompts
    /\ found = NoFind
    /\ artifact_status = [p \in Prompts |-> "pending"]
    /\ error_message = [p \in Prompts |-> None]
    /\ prompt_artifacts = <<>>
    /\ now = 0
    /\ processing_since = [p \in Prompts |-> NULL]
    /\ pc = [w \in Workers |-> "idle"]
    /\ cur = [w \in Workers |-> 0]
    /\ artifacts = [w \in Workers |-> <<>>]
    /\ saved = [w \in Workers |-> 0]
    /\ exc = None
    /\ svc_prompts = <<>>
    /\ runs = 0
    /\ invoked = [p \in Prompts |-> <<>>]
    /\ task_queue = <<>>
    /\ after_queue = <<>>
    /\ is_generating = FALSE
    /\ current_batch_total = 0
    /\ current_batch_success = 0
    /\ current_batch_errors = 0
    /\ dialog = "none"
    /\ last_reset = [at |-> NULL, timeout |-> 0, count |-> 0]
    /\ status_call = NoCall
    /\ txn = NoTransaction

\* The same, with the programs launched on a configuration that passed
\* validation
Fresh ==
    /\ FreshStore
    /\ config = ValidConfig
    /\ main = Launched
    /\ lyrics_json = NoPayload
    /\ rendered = NotRendered
    /\ write_call = NoWrite

\* ------------------------------------------------- orchestrator control
\* The exception `message` leaves the try block of worker w while it handles
\* cur[w]: the service enters its except clause, the GUI worker schedules
\* _on_task_error on the main thread and returns to the queue.
Raised(w, message) ==
    /\ IF w = "svc"
       THEN /\ pc' = [pc EXCEPT ![w] = "except"]
            /\ exc' = message
            /\ UNCHANGED <<cur, svc_prompts, after_queue, artifacts, saved>>
       ELSE /\ artifacts' = [artifacts EXCEPT ![w] = <<>>]
            /\ saved' = [saved EXCEPT ![w] = 0]
            /\ pc' = [pc EXCEPT ![w] = "idle"]
            /\ cur' = [cur EXCEPT ![w] = 0]
            /\ after_queue' = Append(after_queue,
                    [callback |-> "_on_task_error", prompt |-> cur[w], error_msg |-> message])
            /\ UNCHANGED <<exc, svc_prompts>>

\* The service loop moves to its next prompt, or the run returns
NextPrompt ==
    /\ exc' = None
    /\ artifacts' = [artifacts EXCEPT !["svc"] = <<>>]
    /\ saved' = [saved EXCEPT !["svc"] = 0]
    /\ svc_prompts' = Tail(svc_prompts)
    /\ IF Tail(svc_prompts) = <<>>
       THEN /\ pc' = [pc EXCEPT !["svc"] = "done"]
            /\ cur' = [cur EXCEPT !["svc"] = 0]
       ELSE /\ pc' = [pc EXCEPT !["svc"] = "claim"]
            /\ cur' = [cur EXCEPT !["svc"] = Head(Tail(svc_prompts))]

\* The try block of worker w completed for cur[w]
Completed(w) ==
    /\ IF w = "svc"
       THEN NextPrompt /\ UNCHANGED after_queue
       ELSE /\ artifacts' = [artifacts EXCEPT ![w] = <<>>]
            /\ saved' = [saved EXCEPT ![w] = 0]
            /\ pc' = [pc EXCEPT ![w] = "idle"]
            /\ cur' = [cur EXCEPT ![w] = 0]
            /\ after_queue' = Append(after_queue,
                    [callback |-> "_on_task_success", prompt |-> cur[w], error_msg |-> None])
            /\ UNCHANGED <<exc, svc_prompts>>

\* ------------------------------------------- steps of one generation
\* prompt_repo.update_artifact_status(prompt.id, 'processing')
Claim(w, ok) ==
    /\ pc[w] = "claim"
    /\ IF ok
       THEN /\ update_artifact_status(cur[w], "processing", None)
            /\ pc' = [pc EXCEPT ![w] = "generate"]
            /\ UNCHANGED <<prompt_artifacts, cur, artifacts, saved, exc, svc_prompts,
                           after_queue>>
       ELSE /\ Raised(w, DatabaseErrorMessage)
            /\ UNCHANGED dbVars
    /\ UNCHANGED <<processed_at, lyrics_json, rendered, write_call, config, main, writings, status_call, prompts, found, now, runs, invoked, task_queue,
                   is_generating, dialog, current_batch_total, current_batch_success,
                   current_batch_errors, last_reset, txn>>

\* from_json(prompt.get_json_prompt()) and executor.generate(prompt, json_data):
\* result is what the collaborator did: "exit0" having written `files` files,
\* "nonzero", "timeout" or "notfound"; invoked records it with the output
\* directory the executor created for the attempt
Generate(w, result, files, stderr) ==
    /\ pc[w] = "generate"
    /\ IF from_json_raises(get_json_prompt(writings[cur[w]]))
       THEN /\ Raised(w, AttributeErrorMessage)
            /\ UNCHANGED invoked
       ELSE /\ invoked' = [invoked EXCEPT ![cur[w]] =
                    Append(@, <<result, IF result = "exit0" THEN files ELSE 0,
                                output_directory(cur[w], artifact_type_of(cur[w]))>>)]
            /\ IF result = "nonzero" THEN Raised(w, stderr)
               ELSE IF result = "timeout" THEN Raised(w, TimeoutMessage)
               ELSE IF result = "notfound" THEN Raised(w, NotFoundMessage)
               ELSE IF files = 0 THEN Raised(w, NoFilesMessage)
               ELSE /\ artifacts' = [artifacts EXCEPT ![w] =
                            [i \in 1..files |-> ArtifactRecord(cur[w], i)]]
                    /\ saved' = [saved EXCEPT ![w] = 0]
                    /\ pc' = [pc EXCEPT ![w] = "save"]
                    /\ UNCHANGED <<cur, exc, svc_prompts, after_queue>>
    /\ UNCHANGED <<dbVars, processed_at, lyrics_json, rendered, write_call, config, main, writings, status_call, prompts, found, now, runs, task_queue,
                   is_generating, dialog, current_batch_total, current_batch_success,
                   current_batch_errors, last_reset, txn>>

\* for artifact in artifacts: artifact_repo.save_artifact(artifact)
SaveArtifact(w, ok) ==
    /\ pc[w] = "save"
    /\ IF ok
       THEN /\ save_artifact(artifacts[w][saved[w] + 1])
            /\ saved' = [saved EXCEPT ![w] = @ + 1]
            /\ pc' = [pc EXCEPT ![w] = IF saved[w] + 1 = Len(artifacts[w]) THEN "ready" ELSE "save"]
            /\ UNCHANGED <<cur, artifacts, exc, svc_prompts, after_queue>>
       ELSE /\ Raised(w, DatabaseErrorMessage)
            /\ UNCHANGED prompt_artifacts
    /\ UNCHANGED <<artifact_status, error_message, processing_since,
                   processed_at, lyrics_json, rendered, write_call, config, main, writings, status_call, prompts, found, now, runs, invoked, task_queue,
                   is_generating, dialog, current_batch_total, current_batch_success,
                   current_batch_errors, last_reset, txn>>

\* prompt_repo.update_artifact_status(prompt.id, 'ready')
MarkReady(w, ok) ==
    /\ pc[w] = "ready"
    /\ IF ok
       THEN /\ update_artifact_status(cur[w], "ready", None)
            /\ Completed(w)
       ELSE /\ Raised(w, DatabaseErrorMessage)
            /\ UNCHANGED <<artifact_status, error_message, processing_since>>
    /\ UNCHANGED <<prompt_artifacts, processed_at, lyrics_json, rendered, write_call, config, main, writings, status_call, prompts, found, now, runs, invoked,
                   task_queue, is_generating, dialog, current_batch_total,
                   current_batch_success, current_batch_errors, last_reset, txn>>

\* ------------------------------------------------------- service run
\* process_pending_prompts up to its first prompt: both scans, the early
\* return when nothing is pending
process_pending_prompts(limit) ==
    /\ pc["svc"] \in {"idle", "done", "aborted", "crashed"}
    /\ LET image_prompts == get_pending_prompts("image_prompt", limit)
           lyrics_prompts == get_pending_prompts("lyrics_prompt", limit)
           all == image_prompts \o lyrics_prompts
       IN /\ svc_prompts' = all
          /\ IF all = <<>>
             THEN /\ pc' = [pc EXCEPT !["svc"] = "done"]
                  /\ cur' = [cur EXCEPT !["svc"] = 0]
             ELSE /\ pc' = [pc EXCEPT !["svc"] = "claim"]
                  /\ cur' = [cur EXCEPT !["svc"] = Head(all)]
    /\ exc' = None
    /\ artifacts' = [artifacts EXCEPT !["svc"] = <<>>]
    /\ saved' = [saved EXCEPT !["svc"] = 0]
    /\ UNCHANGED <<dbVars, processed_at, lyrics_json, rendered, write_call, config, main, writings, status_call, prompts, found, now, invoked, guiVars,
                   last_reset, txn>>

\* One of the runs of the service, started by its scheduler
Scan ==
    /\ runs < MaxRuns
    /\ runs' = runs + 1
    /\ process_pending_prompts(ServiceLimit)

\* A faulty except clause: the failure is logged and the loop goes on
ExceptLogsOnly(ok) ==
    /\ pc["svc"] = "except"
    /\ NextPrompt
    /\ UNCHANGED <<dbVars, processed_at, lyrics_json, rendered, write_call, config, main,
                   writings, status_call, prompts, found, now, runs, invoked, guiVars,
                   last_reset, txn>>

\* except Exception as e: prompt_repo.update_artifact_status(prompt.id, 'error', str(e));
\* an exception raised here leaves process_pending_prompts (main returns 1)
Except(ok) ==
    /\ pc["svc"] = "except"
    /\ IF ok
       THEN /\ update_artifact_status(cur["svc"], "error", exc)
            /\ NextPrompt
       ELSE /\ pc' = [pc EXCEPT !["svc"] = "aborted"]
            /\ UNCHANGED <<artifact_status, error_message, processing_since,
                           cur, exc, svc_prompts, artifacts, saved>>
    /\ UNCHANGED <<prompt_artifacts, processed_at, lyrics_json, rendered, write_call, config, main, writings, status_call, prompts, found, now, runs,
                   invoked, guiVars, last_reset, txn>>

\* The process of worker w dies in the middle of a prompt
Crash(w) ==
    /\ pc[w] \in {"claim", "generate", "save", "ready", "except"}
    /\ pc' = [pc EXCEPT ![w] = "crashed"]
    /\ UNCHANGED <<dbVars, processed_at, lyrics_json, rendered, write_call, config, main, writings, status_call, prompts, found, now, cur, artifacts, saved, exc,
                   svc_prompts, runs, invoked, guiVars, last_reset, txn>>

\* ---------------------------------------------------------------- GUI
\* error_msg[:n]
Truncate(message, n) == Msg(message.kind, IF message.len > n THEN n ELSE message.len)

\* the rows `selection` selected in the tree (newest first), each looked up
\* again among the pending prompts
prompts_to_generate(selection) ==
    SelectSeq(Reverse(SeqOfSet(selection)), LAMBDA p : artifact_status[p] = "pending")

\* A faulty guard: a request is accepted while a batch is running
request_always_accepted == FALSE

\* if self.is_generating: showinfo("Generation In Progress", ...); return
request_rejected == is_generating

\* MediaGeneratorApp.generate_selected, with its early returns
generate_selected(selection) ==
    /\ pc["gui"] # "crashed"
    /\ IF selection = {}
       THEN /\ dialog' = "No Selection"
            /\ UNCHANGED <<task_queue, is_generating, current_batch_total,
                           current_batch_success, current_batch_errors>>
       ELSE IF request_rejected
       THEN /\ dialog' = "Generation In Progress"
            /\ UNCHANGED <<task_queue, is_generating, current_batch_total,
                           current_batch_success, current_batch_errors>>
       ELSE IF prompts_to_generate(selection) = <<>>
       THEN /\ dialog' = "Error"
            /\ UNCHANGED <<task_queue, is_generating, current_batch_total,
                           current_batch_success, current_batch_errors>>
       ELSE /\ is_generating' = TRUE
            /\ current_batch_total' = Len(prompts_to_generate(selection))
            /\ current_batch_success' = 0
            /\ current_batch_errors' = 0
            /\ task_queue' = task_queue \o prompts_to_generate(selection)
            /\ UNCHANGED dialog
    /\ UNCHANGED <<dbVars, processed_at, lyrics_json, rendered, write_call, config, main, writings, status_call, prompts, found, now, pc, cur, artifacts, saved, exc,
                   svc_prompts, runs, invoked, after_queue, last_reset, txn>>

\* A faulty queue: get() returns the task put last
queue_get_lifo(q) == [task |-> q[Len(q)], rest |-> SubSeq(q, 1, Len(q) - 1)]

\* queue.Queue.get: the task put first, and the queue without it
queue_get(q) == [task |-> Head(q), rest |-> Tail(q)]

\* _worker_loop: task = self.task_queue.get(block=True)
WorkerTake ==
    /\ pc["gui"] = "idle"
    /\ task_queue # <<>>
    /\ cur' = [cur EXCEPT !["gui"] = queue_get(task_queue).task]
    /\ task_queue' = queue_get(task_queue).rest
    /\ pc' = [pc EXCEPT !["gui"] = "claim"]
    /\ UNCHANGED <<dbVars, processed_at, lyrics_json, rendered, write_call, config, main, writings, status_call, prompts, found, now, artifacts, saved, exc, svc_prompts,
                   runs, invoked, after_queue, is_generating, dialog, current_batch_total,
                   current_batch_success, current_batch_errors, last_reset, txn>>

\* A faulty accounting: the batch is complete only when the counted results
\* exceed the total
BatchAccountingLate(success, errors) ==
    IF success + errors > current_batch_total
    THEN /\ is_generating' = FALSE
         /\ dialog' = IF errors = 0 THEN "Success" ELSE "Partial Success"
         /\ current_batch_total' = 0
         /\ current_batch_success' = 0
         /\ current_batch_errors' = 0
    ELSE /\ current_batch_success' = success
         /\ current_batch_errors' = errors
         /\ UNCHANGED <<is_generating, dialog, current_batch_total>>

\* _on_batch_complete, when the counted results reach the batch total
BatchAccounting(success, errors) ==
    IF success + errors >= current_batch_total
    THEN /\ is_generating' = FALSE
         /\ dialog' = IF errors = 0 THEN "Success" ELSE "Partial Success"
         /\ current_batch_total' = 0
         /\ current_batch_success' = 0
         /\ current_batch_errors' = 0
    ELSE /\ current_batch_success' = success
         /\ current_batch_errors' = errors
         /\ UNCHANGED <<is_generating, dialog, current_batch_total>>

\* The main thread runs the next scheduled callback: _on_task_success, or
\* _on_task_error (whose status write may fail and is then only printed)
MainCallback(ok) ==
    /\ pc["gui"] # "crashed"
    /\ after_queue # <<>>
    /\ after_queue' = Tail(after_queue)
    /\ LET ev == Head(after_queue)
       IN IF ev.callback = "_on_task_success"
          THEN /\ BatchAccounting(current_batch_success + 1, current_batch_errors)
               /\ UNCHANGED <<artifact_status, error_message, processing_since>>
          ELSE /\ BatchAccounting(current_batch_success, current_batch_errors + 1)
               /\ IF ok
                  THEN update_artifact_status(ev.prompt, "error", Truncate(ev.error_msg, 500))
                  ELSE UNCHANGED <<artifact_status, error_message, processing_since>>
    /\ UNCHANGED <<prompt_artifacts, processed_at, lyrics_json, rendered, write_call, config, main, writings, status_call, prompts, found, now, pc, cur, artifacts, saved,
                   exc, svc_prompts, runs, invoked, task_queue, last_reset, txn>>

\* ------------------------------------------------------ reclaim sweep
\* PromptRepository.reset_stale_processing_prompts(timeout_minutes), committed
reset_stale_processing_prompts(timeout) ==
    /\ reset_stale_rows(timeout)
    /\ UNCHANGED <<prompt_artifacts, processing_since, processed_at, lyrics_json, rendered, write_call, config, main, writings, status_call, prompts, found, now,
                   pc, cur, artifacts, saved, exc, svc_prompts, runs, invoked, guiVars, txn>>

\* time passes
Tick ==
    /\ now < MaxTime
    /\ now' = now + 1
    /\ UNCHANGED <<dbVars, processed_at, lyrics_json, rendered, write_call, config, main, writings, status_call, prompts, found, pc, cur, artifacts, saved, exc,
                   svc_prompts, runs, invoked, guiVars, last_reset, txn>>

\* ------------------------------------------------------ specification
CollaboratorResults == {"exit0", "nonzero", "timeout", "notfound"}

\* The service run and the GUI process side by side, on a store whose
\* statements succeed; the user presses Generate on pending rows while no
\* batch is running
Init ==
    /\ Fresh
    /\ processed_at = [p \in Prompts |-> NULL]
    /\ \E ws \in WritingsChoices : writings = [p \in Prompts |-> ws]

Next ==
    \/ Scan
    \/ \E w \in Workers : Claim(w, TRUE)
    \/ \E w \in Workers, result \in CollaboratorResults, files \in 0..MaxFiles,
          stderr \in ExitMessages : Generate(w, result, files, stderr)
    \/ \E w \in Workers : SaveArtifact(w, TRUE)
    \/ \E w \in Workers : MarkReady(w, TRUE)
    \/ Except(TRUE)
    \/ \E selection \in SUBSET Prompts : /\ ~is_generating
                                         /\ prompts_to_generate(selection) # <<>>
                                         /\ generate_selected(selection)
    \/ WorkerTake
    \/ MainCallback(TRUE)

Spec == Init /\ [][Next]_vars

\* The service alone: its statements may fail, its process may die, time
\* passes and the reclaim sweep may be run
ServiceInit ==
    /\ Fresh
    /\ processed_at \in [Prompts -> {NULL, 0}]
    /\ writings = [p \in Prompts |-> <<"object">>]

ServiceNext ==
    \/ Scan
    \/ \E ok \in BOOLEAN : Claim("svc", ok)
    \/ \E result \in CollaboratorResults, files \in 0..MaxFiles, stderr \in ExitMessages :
          Generate("svc", result, files, stderr)
    \/ \E ok \in BOOLEAN : SaveArtifact("svc", ok)
    \/ \E ok \in BOOLEAN : MarkReady("svc", ok)
    \/ \E ok \in BOOLEAN : Except(ok)
    \/ Crash("svc")
    \/ \E timeout \in TimeoutChoices : reset_stale_processing_prompts(timeout)
    \/ Tick

ServiceSpec == ServiceInit /\ [][ServiceNext]_vars

\* The reclaim sweep on its own, run at any time over any table of prompts:
\* a prompt in error carries a message, a ready prompt owns one artifact row
SweepInit ==
    /\ config = ValidConfig
    /\ main = Launched
    /\ lyrics_json = NoPayload
    /\ rendered = NotRendered
    /\ write_call = NoWrite
    /\ prompts = CanonicalPrompts
    /\ found = NoFind
    /\ artifact_status \in [Prompts -> Statuses]
    /\ error_message = [p \in Prompts |->
            IF artifact_status[p] = "error" THEN DatabaseErrorMessage ELSE None]
    /\ processed_at \in [Prompts -> {NULL} \cup Times]
    /\ now = 0
    /\ prompt_artifacts = SelectSeq([p \in Prompts |-> ArtifactRecord(p, 1)],
                                    LAMBDA a : artifact_status[a.prompt_id] = "ready")
    /\ writings = [p \in Prompts |-> <<"object">>]
    /\ processing_since = [p \in Prompts |-> NULL]
    /\ pc = [w \in Workers |-> "idle"]
    /\ cur = [w \in Workers |-> 0]
    /\ artifacts = [w \in Workers |-> <<>>]
    /\ saved = [w \in Workers |-> 0]
    /\ exc = None
    /\ svc_prompts = <<>>
    /\ runs = 0
    /\ invoked = [p \in Prompts |-> <<>>]
    /\ task_queue = <<>>
    /\ after_queue = <<>>
    /\ is_generating = FALSE
    /\ current_batch_total = 0
    /\ current_batch_success = 0
    /\ current_batch_errors = 0
    /\ dialog = "none"
    /\ last_reset = [at |-> NULL, timeout |-> 0, count |-> 0]
    /\ status_call = NoCall
    /\ txn = NoTransaction

SweepNext ==
    \/ \E timeout \in 0..MaxTime : reset_stale_processing_prompts(timeout)
    \/ Tick

SweepSpec == SweepInit /\ [][SweepNext]_vars

\* One service on a working store with nothing else running
SoloInit ==
    /\ Fresh
    /\ processed_at = [p \in Prompts |-> NULL]
    /\ writings \in [Prompts -> WritingsChoices]

SoloNext ==
    \/ Scan
    \/ Claim("svc", TRUE)
    \/ \E result \in CollaboratorResults, files \in 0..MaxFiles, stderr \in ExitMessages :
          Generate("svc", result, files, stderr)
    \/ SaveArtifact("svc", TRUE)
    \/ MarkReady("svc", TRUE)
    \/ Except(TRUE)
    \/ Tick

SoloSpec == SoloInit /\ [][SoloNext]_vars

\* ------------------------------------------- save_artifacts_atomic
\* A faulty exit: the connection is left as it is
finally_skipped(conn) == conn

\* finally: if conn: conn.close()
finally_close(conn) == IF conn = "open" THEN "closed" ELSE conn

\* A faulty except clause: a failed rollback replaces the body's exception
reraise_rollback_error(e, rollback_ok) == IF rollback_ok THEN e ELSE RollbackErrorMessage

\* The bare raise of the except clauses: the exception being handled leaves
\* db_transaction, also when conn.rollback() failed and was logged
reraise(e, rollback_ok) == e

\* Exceptions the body of the with block can raise: sqlite3.Error, or any
\* other exception (json.dumps of the metadata)
BodyExceptions == {DatabaseErrorMessage, TypeErrorMessage}

\* with db_transaction(self.db_path) as conn: connect, PRAGMAs, BEGIN IMMEDIATE.
\* When connect fails there is no connection; when a PRAGMA or BEGIN fails the
\* except clause re-raises, finally closes, and nothing has been written.
Begin(p, n, final_status, ok) ==
    /\ txn.state = "none"
    /\ Len(prompt_artifacts) + n <= MaxRows
    /\ \E connected \in BOOLEAN, rollback_ok \in BOOLEAN :
         LET opened == ok /\ WriteLockFree
             failed == IF opened THEN None ELSE DatabaseErrorMessage
         IN /\ opened => (connected /\ rollback_ok)
            /\ ~connected => rollback_ok
            /\ txn' = [state |-> IF opened THEN "open" ELSE "raised",
                       prompt_id |-> p,
                       artifacts |-> [i \in 1..n |-> ArtifactRecord(p, i)],
                       final_status |-> final_status,
                       inserted |-> <<>>,
                       status_written |-> FALSE,
                       before |-> [rows |-> Len(prompt_artifacts),
                                   status |-> artifact_status[p]],
                       conn |-> IF opened THEN "open"
                                ELSE IF connected THEN finally_close("open") ELSE "none",
                       exc |-> failed,
                       raised |-> IF opened THEN None ELSE reraise(failed, rollback_ok),
                       rollback_ok |-> rollback_ok,
                       checkpoint |-> NoCheckpoint]
    /\ UNCHANGED <<dbVars, processed_at, lyrics_json, rendered, write_call, config, main, writings, status_call, prompts, found, now, pc, cur, artifacts, saved, exc,
                   svc_prompts, runs, invoked, guiVars, last_reset>>

\* A faulty rollback: the inserts executed before the failure stay in the table, as
\* they would had BEGIN not been issued on the autocommit connection
rows_after_lost_rollback == prompt_artifacts \o txn.inserted

\* The rows of prompt_artifacts that other connections see once the
\* transaction has been rolled back (conn.rollback(), or conn.close() when
\* the rollback itself failed)
rows_after_rollback == prompt_artifacts

\* The exception e raised inside the with block, or by a failing commit:
\* except clause, conn.rollback() (which may itself fail), raise, finally
Rollback(e, rollback_ok) ==
    /\ txn' = [txn EXCEPT !.state = "raised",
                          !.exc = e,
                          !.raised = reraise(e, rollback_ok),
                          !.rollback_ok = rollback_ok,
                          !.conn = finally_close(@)]
    /\ prompt_artifacts' = rows_after_rollback
    /\ UNCHANGED <<artifact_status, error_message, processing_since>>

\* Step 1: the next INSERT INTO prompt_artifacts, inside the transaction
Insert(ok) ==
    /\ txn.state = "open"
    /\ Len(txn.inserted) < Len(txn.artifacts)
    /\ IF ok
       THEN /\ txn' = [txn EXCEPT !.inserted = Append(@, txn.artifacts[Len(@) + 1])]
            /\ UNCHANGED dbVars
       ELSE \E e \in BodyExceptions, rollback_ok \in BOOLEAN : Rollback(e, rollback_ok)
    /\ UNCHANGED <<processed_at, lyrics_json, rendered, write_call, config, main, writings, status_call, prompts, found, now, pc, cur, artifacts, saved, exc,
                   svc_prompts, runs, invoked, guiVars, last_reset>>

\* Step 2: UPDATE prompts SET artifact_status = ?, inside the transaction
UpdateStatus(ok) ==
    /\ txn.state = "open"
    /\ Len(txn.inserted) = Len(txn.artifacts)
    /\ ~txn.status_written
    /\ IF ok
       THEN /\ txn' = [txn EXCEPT !.status_written = TRUE]
            /\ UNCHANGED dbVars
       ELSE \E rollback_ok \in BOOLEAN : Rollback(DatabaseErrorMessage, rollback_ok)
    /\ UNCHANGED <<processed_at, lyrics_json, rendered, write_call, config, main, writings, status_call, prompts, found, now, pc, cur, artifacts, saved, exc,
                   svc_prompts, runs, invoked, guiVars, last_reset>>

\* conn.commit() at the end of the with block
Commit(ok) ==
    /\ txn.state = "open"
    /\ txn.status_written
    /\ IF ok
       THEN /\ txn' = [txn EXCEPT !.state = "committed", !.conn = finally_close(@)]
            /\ prompt_artifacts' = prompt_artifacts \o txn.inserted
            /\ artifact_status' = [artifact_status EXCEPT ![txn.prompt_id] = txn.final_status]
            /\ UNCHANGED <<error_message, processing_since>>
       ELSE \E rollback_ok \in BOOLEAN : Rollback(DatabaseErrorMessage, rollback_ok)
    /\ UNCHANGED <<processed_at, lyrics_json, rendered, write_call, config, main, writings, status_call, prompts, found, now, pc, cur, artifacts, saved, exc,
                   svc_prompts, runs, invoked, guiVars, last_reset>>

\* What a WAL checkpoint can meet: every frame flushed, readers blocking part
\* of it (busy = 1), or an exception from connect or from the PRAGMA
CheckpointOutcomes == {"done", "busy", "error"}

\* A faulty checkpoint: the exception of connect or of the PRAGMA is not caught
force_wal_checkpoint_unguarded(outcome) ==
    [result |-> IF outcome = "done" THEN "True" ELSE "False",
     raised |-> IF outcome = "error" THEN DatabaseErrorMessage ELSE None]

\* force_wal_checkpoint: True when busy = 0, False when busy = 1, and False
\* from the except Exception clause around everything
force_wal_checkpoint(outcome) ==
    [result |-> IF outcome = "done" THEN "True" ELSE "False",
     raised |-> None]

\* the try / except sqlite3.Error: pass around PRAGMA wal_checkpoint(PASSIVE)
\* at the end of update_artifact_status: what it lets out
passive_checkpoint(outcome) == None

\* force_wal_checkpoint(self.db_path, mode="RESTART") after the with block;
\* save_artifacts_atomic then returns
Checkpoint(outcome) ==
    /\ txn.state = "committed"
    /\ LET r == force_wal_checkpoint(outcome)
           done == [mode |-> "RESTART", outcome |-> outcome, result |-> r.result]
       IN txn' = IF r.raised = None
                 THEN [NoTransaction EXCEPT !.checkpoint = done]
                 ELSE [txn EXCEPT !.state = "raised", !.exc = r.raised,
                                  !.raised = r.raised, !.checkpoint = done]
    /\ UNCHANGED <<dbVars, processed_at, lyrics_json, rendered, write_call, config, main, writings, status_call, prompts, found, now, pc, cur, artifacts, saved, exc,
                   svc_prompts, runs, invoked, guiVars, last_reset>>

\* The exception re-raised by db_transaction leaves save_artifacts_atomic
Propagate ==
    /\ txn.state = "raised"
    /\ txn' = NoTransaction
    /\ UNCHANGED <<dbVars, processed_at, lyrics_json, rendered, write_call, config, main, writings, status_call, prompts, found, now, pc, cur, artifacts, saved, exc,
                   svc_prompts, runs, invoked, guiVars, last_reset>>

\* Another process commits a status write of its own
ConcurrentUpdate(p, status, message) ==
    /\ update_artifact_status(p, status, message)
    /\ UNCHANGED <<prompt_artifacts, processed_at, lyrics_json, rendered, write_call, config, main, writings, status_call, prompts, found, now, pc, cur, artifacts, saved,
                   exc, svc_prompts, runs, invoked, guiVars, last_reset, txn>>

\* An update_artifact_status(p, status, message) call whose UPDATE commits and
\* whose closing checkpoint meets `outcome`
StatusWrite(p, status, message, outcome) ==
    /\ update_artifact_status(p, status, message)
    /\ status_call' = [prompt_id |-> p, status |-> status, message |-> message,
                       checkpoint |-> outcome, raised |-> passive_checkpoint(outcome)]
    /\ UNCHANGED <<prompt_artifacts, processed_at, lyrics_json, rendered, write_call, config, main, writings, prompts, found, now, pc, cur,
                   artifacts, saved, exc, svc_prompts, runs, invoked, guiVars, last_reset, txn>>

AtomicNext ==
    \/ \E p \in Prompts, n \in 0..MaxBatch, final_status \in Statuses, ok \in BOOLEAN :
          Begin(p, n, final_status, ok)
    \/ \E ok \in BOOLEAN : Insert(ok)
    \/ \E ok \in BOOLEAN : UpdateStatus(ok)
    \/ \E ok \in BOOLEAN : Commit(ok)
    \/ \E outcome \in CheckpointOutcomes : Checkpoint(outcome)
    \/ Propagate
    \/ \E p \in Prompts, status \in Statuses : ConcurrentUpdate(p, status, None)

AtomicInit ==
    /\ Fresh
    /\ processed_at = [p \in Prompts |-> NULL]
    /\ writings = [p \in Prompts |-> <<"object">>]

AtomicSpec == AtomicInit /\ [][AtomicNext]_vars

\* save_artifacts_atomic calls alone, any of whose statements may fail
TransactionNext ==
    \/ \E p \in Prompts, n \in 0..MaxBatch, ok \in BOOLEAN : Begin(p, n, "ready", ok)
    \/ \E ok \in BOOLEAN : Insert(ok)
    \/ \E ok \in BOOLEAN : UpdateStatus(ok)
    \/ \E ok \in BOOLEAN : Commit(ok)
    \/ Checkpoint("done")
    \/ Propagate

TransactionSpec == AtomicInit /\ [][TransactionNext]_vars

\* Committed writes followed by their checkpoint: save_artifacts_atomic calls
\* whose statements all succeed, and update_artifact_status calls
CheckpointNext ==
    \/ \E p \in Prompts, n \in 0..MaxBatch : Begin(p, n, "ready", TRUE)
    \/ Insert(TRUE)
    \/ UpdateStatus(TRUE)
    \/ Commit(TRUE)
    \/ \E outcome \in CheckpointOutcomes : Checkpoint(outcome)
    \/ \E p \in Prompts, outcome \in CheckpointOutcomes :
          StatusWrite(p, "processing", None, outcome)

CheckpointSpec == AtomicInit /\ [][CheckpointNext]_vars

\* ------------------------------------------------- the pending scans
\* No orchestrator, sweep or transaction has started
NothingRunning ==
    /\ now = 0
    /\ pc = [w \in Workers |-> "idle"]
    /\ cur = [w \in Workers |-> 0]
    /\ artifacts = [w \in Workers |-> <<>>]
    /\ saved = [w \in Workers |-> 0]
    /\ exc = None
    /\ svc_prompts = <<>>
    /\ runs = 0
    /\ invoked = [p \in Prompts |-> <<>>]
    /\ task_queue = <<>>
    /\ after_queue = <<>>
    /\ is_generating = FALSE
    /\ current_batch_total = 0
    /\ current_batch_success = 0
    /\ current_batch_errors = 0
    /\ dialog = "none"
    /\ last_reset = [at |-> NULL, timeout |-> 0, count |-> 0]
    /\ status_call = NoCall
    /\ txn = NoTransaction

\* The prompts tables the producer can have written: any prompt_type per
\* prompt, created_at values that may coincide, and the rows met by the
\* engine in ascending or in descending id order
PromptTables ==
    {t \in [Prompts -> [prompt_type : PromptTypes, status : {"completed"},
                        created_at : 1..NumPrompts, tie : Prompts]] :
        \/ \A p \in Prompts : t[p].tie = p
        \/ \A p \in Prompts : t[p].tie = NumPrompts + 1 - p}

\* get_pending_image_prompts(limit) / get_pending_lyrics_prompts(limit) called
\* and returned; `seen` is the artifact_status column the query ran on and
\* `calls` counts the calls with these arguments on that column, up to two
Find(type, limit) ==
    /\ found' = [type |-> type,
                 limit |-> limit,
                 result |-> get_pending_prompts(type, limit),
                 seen |-> artifact_status,
                 calls |-> IF /\ found.type = type
                              /\ found.limit = limit
                              /\ found.seen = artifact_status
                           THEN 2 ELSE 1]
    /\ UNCHANGED <<artifact_status, error_message, prompt_artifacts, processed_at, lyrics_json, rendered, write_call, config, main, writings,
                   status_call, prompts, now, processing_since, pc, cur, artifacts, saved,
                   exc, svc_prompts, runs, invoked, guiVars, last_reset, txn>>

\* Any table of prompts, each with or without content records of its type,
\* before any of them is handled
FindInit ==
    /\ config = ValidConfig
    /\ main = Launched
    /\ lyrics_json = NoPayload
    /\ rendered = NotRendered
    /\ write_call = NoWrite
    /\ prompts \in PromptTables
    /\ found = NoFind
    /\ artifact_status = [p \in Prompts |-> "pending"]
    /\ error_message = [p \in Prompts |-> None]
    /\ processed_at = [p \in Prompts |-> NULL]
    /\ NothingRunning
    /\ prompt_artifacts = <<>>
    /\ writings \in [Prompts -> {<<>>, <<"object">>}]
    /\ processing_since = [p \in Prompts |-> NULL]

\* The scans at any limit up to one larger than the table, and claims
\* written between them
FindNext ==
    \/ \E type \in PromptTypes, limit \in 1..(NumPrompts + 1) : Find(type, limit)
    \/ \E p \in Prompts : /\ artifact_status[p] = "pending"
                          /\ ConcurrentUpdate(p, "processing", None)

FindSpec == FindInit /\ [][FindNext]_vars

\* ------------------------------------------------- the GUI on its own
\* Every prompt pending with one well-formed content record
PendingInit ==
    /\ Fresh
    /\ processed_at = [p \in Prompts |-> NULL]
    /\ writings = [p \in Prompts |-> <<"object">>]

\* The GUI process alone: the user queues batches, the worker thread handles
\* them, the main thread runs the callbacks, whose status write may fail
GuiNext ==
    \/ \E selection \in SUBSET Prompts : generate_selected(selection)
    \/ WorkerTake
    \/ Claim("gui", TRUE)
    \/ \E result \in CollaboratorResults, files \in 0..MaxFiles, stderr \in ExitMessages :
          Generate("gui", result, files, stderr)
    \/ SaveArtifact("gui", TRUE)
    \/ MarkReady("gui", TRUE)
    \/ \E ok \in BOOLEAN : MainCallback(ok)

GuiSpec == PendingInit /\ [][GuiNext]_vars

\* ----------------------------------------------------------- startup
\* A faulty main: the issues are printed and the program goes on
startup_continues(issues) == FALSE

\* if issues: ... return 1
startup_blocked(issues) == issues # <<>>

\* main() of the service or of the GUI up to the end of validation
main_start(program) ==
    /\ main.state = "not_started"
    /\ LET issues == validate_config(config)
       IN main' = IF startup_blocked(issues)
                  THEN [program |-> program, state |-> "exited", issues |-> issues,
                        exit_code |-> 1]
                  ELSE [program |-> program, state |-> "running", issues |-> issues,
                        exit_code |-> NULL]
    /\ UNCHANGED <<dbVars, processed_at, lyrics_json, rendered, write_call, config, writings, status_call, prompts, found, now, pc,
                   cur, artifacts, saved, exc, svc_prompts, runs, invoked, guiVars,
                   last_reset, txn>>

\* process_pending_prompts has returned to the service's main, or the window
\* of the GUI was closed and mainloop returned: return 0
main_return ==
    /\ main.state = "running"
    /\ \/ main.program = "service" /\ pc["svc"] = "done"
       \/ main.program = "gui"
    /\ main' = [main EXCEPT !.state = "exited", !.exit_code = 0]
    /\ UNCHANGED <<dbVars, processed_at, lyrics_json, rendered, write_call, config, writings, status_call, prompts, found, now, pc,
                   cur, artifacts, saved, exc, svc_prompts, runs, invoked, guiVars,
                   last_reset, txn>>

Running(program) == main.state = "running" /\ main.program = program

\* Either program launched on any configuration, on a working store
StartupInit ==
    /\ FreshStore
    /\ processed_at = [p \in Prompts |-> NULL]
    /\ writings = [p \in Prompts |-> <<"object">>]
    /\ config \in Configs
    /\ main = NotStarted
    /\ lyrics_json = NoPayload
    /\ rendered = NotRendered
    /\ write_call = NoWrite

StartupNext ==
    \/ \E program \in {"service", "gui"} : main_start(program)
    \/ main_return
    \/ Running("service") /\ runs = 0 /\ Scan
    \/ Running("service") /\ Claim("svc", TRUE)
    \/ Running("gui") /\ Claim("gui", TRUE)
    \/ \E w \in Workers, result \in CollaboratorResults, files \in 0..MaxFiles,
          stderr \in ExitMessages :
          Running(IF w = "svc" THEN "service" ELSE "gui") /\ Generate(w, result, files, stderr)
    \/ \E w \in Workers :
          Running(IF w = "svc" THEN "service" ELSE "gui") /\ SaveArtifact(w, TRUE)
    \/ \E w \in Workers :
          Running(IF w = "svc" THEN "service" ELSE "gui") /\ MarkReady(w, TRUE)
    \/ Running("service") /\ Except(TRUE)
    \/ \E selection \in SUBSET Prompts : Running("gui") /\ generate_selected(selection)
    \/ Running("gui") /\ WorkerTake
    \/ Running("gui") /\ MainCallback(TRUE)

StartupSpec == StartupInit /\ [][StartupNext]_vars

\* ------------------------------------------------ rendering a payload
\* payloads that differ in their structure
StructurePayloads ==
    {[NoPayload EXCEPT !.structure = structure] :
        structure \in {Absent} \cup {Member(q) : q \in SeqsUpTo(Sections, MaxSections)}}

\* payloads that differ in their tags
TagPayloads ==
    [genre : {Absent, Member(""), Member("Pop")},
     mood : {Absent, Member("Happy")},
     tempo : {Absent, Member("120 BPM")},
     structure : {Absent},
     metadata : {Absent} \cup
        {Member(m) : m \in
            [key : {Absent, Member("C")},
             time_signature : {Absent, Member("4/4"), Member("3/4")},
             vocal_style : {Absent, Member("soft")},
             instrumentation : {Absent, Member(<<"piano">>), Member(<<"piano", "drums">>)}]}]

\* data.get_full_lyrics() on the parsed payload
GetFullLyrics ==
    /\ rendered' = [called |-> "get_full_lyrics",
                    result |-> get_full_lyrics(LyricsPromptData_from_json(lyrics_json)),
                    parts |-> <<>>]
    /\ UNCHANGED <<dbVars, processed_at, lyrics_json, write_call, config, main, writings, status_call,
                   prompts, found, now, pc, cur, artifacts, saved, exc, svc_prompts, runs,
                   invoked, guiVars, last_reset, txn>>

\* data.get_tags_string() on the parsed payload
GetTagsString ==
    /\ rendered' = [called |-> "get_tags_string",
                    result |-> get_tags_string(LyricsPromptData_from_json(lyrics_json)),
                    parts |-> tags_parts(LyricsPromptData_from_json(lyrics_json))]
    /\ UNCHANGED <<dbVars, processed_at, lyrics_json, write_call, config, main, writings, status_call,
                   prompts, found, now, pc, cur, artifacts, saved, exc, svc_prompts, runs,
                   invoked, guiVars, last_reset, txn>>

LyricsInit ==
    /\ FreshStore
    /\ processed_at = [p \in Prompts |-> NULL]
    /\ writings = [p \in Prompts |-> <<"object">>]
    /\ config = ValidConfig
    /\ main = Launched
    /\ lyrics_json \in StructurePayloads \cup TagPayloads
    /\ rendered = NotRendered
    /\ write_call = NoWrite

LyricsNext == GetFullLyrics \/ GetTagsString

LyricsSpec == LyricsInit /\ [][LyricsNext]_vars

\* ------------------------------------------ the upstream status column
\* prompts.status as the producer leaves it
UpstreamStatuses == {"completed", "failed"}

\* Tables whose rows differ in type and upstream status
StatusTables ==
    {t \in [Prompts -> [prompt_type : PromptTypes, status : UpstreamStatuses,
                        created_at : 1..NumPrompts, tie : Prompts]] :
        \A p \in Prompts : t[p].created_at = p /\ t[p].tie = p}

\* The PromptRecord a scan builds for row p when the artifact_status column
\* is `seen`
PromptRecord(p, seen) ==
    [id |-> p,
     prompt_type |-> prompts[p].prompt_type,
     status |-> prompts[p].status,
     artifact_status |-> seen[p],
     writings |-> writings[p]]

\* PromptRecord.is_pending
is_pending(record) ==
    /\ record.status = "completed"
    /\ record.artifact_status = "pending"
    /\ record.writings # <<>>

StatusInit ==
    /\ config = ValidConfig
    /\ main = Launched
    /\ lyrics_json = NoPayload
    /\ rendered = NotRendered
    /\ write_call = NoWrite
    /\ prompts \in StatusTables
    /\ found = NoFind
    /\ artifact_status = [p \in Prompts |-> "pending"]
    /\ error_message = [p \in Prompts |-> None]
    /\ processed_at = [p \in Prompts |-> NULL]
    /\ NothingRunning
    /\ prompt_artifacts = <<>>
    /\ writings \in [Prompts -> {<<>>, <<"object">>}]
    /\ processing_since = [p \in Prompts |-> NULL]

StatusSpec == StatusInit /\ [][FindNext]_vars

\* ------------------------------- writes made through get_connection()
\* update_artifact_status, save_artifact and reset_stale_processing_prompts
WriteOps == {"update_artifact_status", "save_artifact", "reset_stale_processing_prompts"}

\* get_connection() leaves isolation_level at its default: the transaction is
\* opened by an implicit deferred BEGIN, which takes no lock
begins_with_lock(op) == FALSE

\* The connection when the method is left. The `with` block of a
\* sqlite3.Connection commits or rolls back and does not close it, and the
\* method never calls conn.close(): the connection is closed only if the
\* interpreter has already finalized the unreferenced object (`finalized`).
\* While an exception propagates, its traceback refers to the frame and so
\* to the connection.
connection_at_exit(raised, finalized) ==
    IF raised THEN "open" ELSE IF finalized THEN "closed" ELSE "open"

\* `with self.get_connection() as conn:` entered and the transaction of the
\* statement begun
WriteBegin(op, p, timeout) ==
    /\ write_call.state \in {"none", "returned", "raised"}
    /\ begins_with_lock(op) => (WriteLockFree /\ txn.state # "committed")
    /\ op = "save_artifact" => Len(prompt_artifacts) < MaxRows
    /\ write_call' = [NoWrite EXCEPT !.op = op,
                                     !.prompt_id = IF op = "reset_stale_processing_prompts" THEN 0 ELSE p,
                                     !.timeout = IF op = "reset_stale_processing_prompts" THEN timeout ELSE 0,
                                     !.state = "begun",
                                     !.connection = "open",
                                     !.holds_lock = begins_with_lock(op)]
    /\ UNCHANGED <<dbVars, processed_at, lyrics_json, rendered, config, main, writings,
                   status_call, prompts, found, now, pc, cur, artifacts, saved, exc,
                   svc_prompts, runs, invoked, guiVars, last_reset, txn>>

\* cursor.execute of the UPDATE or INSERT: it takes the write lock if the
\* transaction does not hold it yet; while another writer holds the lock it
\* waits, and raises "database is locked" when the busy timeout expires
WriteExecute(ok) ==
    /\ write_call.state = "begun"
    /\ IF write_call.holds_lock \/ WriteLockFree
       THEN /\ ok
            /\ write_call' = [write_call EXCEPT !.state = "executed", !.holds_lock = TRUE,
                                                !.statements = 1]
       ELSE /\ ~ok
            /\ write_call' = [write_call EXCEPT !.state = "raised",
                                                !.connection = connection_at_exit(TRUE, FALSE),
                                                !.raised = DatabaseErrorMessage]
    /\ UNCHANGED <<dbVars, processed_at, lyrics_json, rendered, config, main, writings,
                   status_call, prompts, found, now, pc, cur, artifacts, saved, exc,
                   svc_prompts, runs, invoked, guiVars, last_reset, txn>>

\* conn.commit(): the write becomes visible and the lock is released
WriteCommit ==
    /\ write_call.state = "executed"
    /\ write_call' = [write_call EXCEPT !.state = "committed", !.holds_lock = FALSE]
    /\ IF write_call.op = "update_artifact_status"
       THEN /\ update_artifact_status(write_call.prompt_id, "processing", None)
            /\ UNCHANGED <<prompt_artifacts, last_reset>>
       ELSE IF write_call.op = "save_artifact"
       THEN /\ save_artifact(ArtifactRecord(write_call.prompt_id, 1))
            /\ UNCHANGED <<artifact_status, error_message, processing_since, last_reset>>
       ELSE /\ reset_stale_rows(write_call.timeout)
            /\ UNCHANGED <<prompt_artifacts, processing_since>>
    /\ UNCHANGED <<processed_at, lyrics_json, rendered, config, main, writings,
                   status_call, prompts, found, now, pc, cur, artifacts, saved, exc,
                   svc_prompts, runs, invoked, guiVars, txn>>

\* what follows conn.commit(): PRAGMA wal_checkpoint(PASSIVE) in
\* update_artifact_status and save_artifact, `return count` in the sweep
checkpoint_after(op) ==
    IF op = "reset_stale_processing_prompts" THEN "none" ELSE "PASSIVE"

\* the rest of the method after the commit, up to its return
WriteReturn(outcome) ==
    /\ write_call.state = "committed"
    /\ LET mode == checkpoint_after(write_call.op)
       IN /\ mode = "none" => outcome = "done"
          /\ \E finalized \in BOOLEAN :
             write_call' =
                [write_call EXCEPT
                    !.state = "returned",
                    !.connection = connection_at_exit(FALSE, finalized),
                    !.raised = IF mode = "none" THEN None ELSE passive_checkpoint(outcome),
                    !.checkpoint = IF mode = "none" THEN NoCheckpoint
                                   ELSE [mode |-> mode, outcome |-> outcome, result |-> "none"]]
    /\ UNCHANGED <<dbVars, processed_at, lyrics_json, rendered, config, main, writings,
                   status_call, prompts, found, now, pc, cur, artifacts, saved, exc,
                   svc_prompts, runs, invoked, guiVars, last_reset, txn>>

\* Rows whose processed_at was recorded by some writer at time 0
WriteInit ==
    /\ Fresh
    /\ processed_at = [p \in Prompts |-> 0]
    /\ writings = [p \in Prompts |-> <<"object">>]

\* The three writes and an atomic batch of another process, each of which may
\* meet the other's lock; time passes before the first of them
WriteNext ==
    \/ \E op \in WriteOps, p \in Prompts :
          /\ op = "save_artifact" => prompt_artifacts = <<>>
          /\ WriteBegin(op, p, 0)
    \/ \E ok \in BOOLEAN : WriteExecute(ok)
    \/ WriteCommit
    \/ \E outcome \in CheckpointOutcomes : WriteReturn(outcome)
    \/ \E ok \in BOOLEAN :
          /\ ~write_call.holds_lock
          /\ prompt_artifacts = <<>>
          /\ Begin(1, 1, "ready", ok)
    \/ Insert(TRUE)
    \/ UpdateStatus(TRUE)
    \/ \E ok \in BOOLEAN : Commit(ok)
    \/ Checkpoint("done")
    \/ Propagate
    \/ write_call = NoWrite /\ txn = NoTransaction /\ Tick

WriteSpec == WriteInit /\ [][WriteNext]_vars

\* ------------------------------------------- attempts and their directories
\* The service run and the GUI process side by side while time passes; the
\* collaborator writes one file or its script is missing
AttemptNext ==
    \/ Scan
    \/ \E w \in Workers : Claim(w, TRUE)
    \/ \E w \in Workers, result \in {"exit0", "notfound"} :
          Generate(w, result, 1, Msg("exit_code", ShortLen))
    \/ \E w \in Workers : SaveArtifact(w, TRUE)
    \/ \E w \in Workers : MarkReady(w, TRUE)
    \/ Except(TRUE)
    \/ \E selection \in SUBSET Prompts : /\ ~is_generating
                                         /\ prompts_to_generate(selection) # <<>>
                                         /\ generate_selected(selection)
    \/ WorkerTake
    \/ MainCallback(TRUE)
    \/ Tick

AttemptSpec == AtomicInit /\ [][AttemptNext]_vars

\* The steps of the worker thread and of the main thread's callbacks
GuiWork ==
    \/ WorkerTake
    \/ Claim("gui", TRUE)
    \/ \E result \in CollaboratorResults, files \in 0..MaxFiles, stderr \in ExitMessages :
          Generate("gui", result, files, stderr)
    \/ SaveArtifact("gui", TRUE)
    \/ MarkReady("gui", TRUE)
    \/ \E ok \in BOOLEAN : MainCallback(ok)

\* The GUI process whose worker thread and event loop keep running, and whose
\* generation calls each return or raise
GuiLiveSpec == PendingInit /\ [][GuiNext]_vars /\ WF_vars(GuiWork)

\* ------------------------------------------------- runs that return
\* The service alone, any of whose statements may fail; a run whose except
\* clause raised has left process_pending_prompts with the exception and is
\* not followed by another
RunNext ==
    \/ pc["svc"] # "aborted" /\ Scan
    \/ \E ok \in BOOLEAN : Claim("svc", ok)
    \/ \E result \in CollaboratorResults, files \in 0..MaxFiles, stderr \in ExitMessages :
          Generate("svc", result, files, stderr)
    \/ \E ok \in BOOLEAN : SaveArtifact("svc", ok)
    \/ \E ok \in BOOLEAN : MarkReady("svc", ok)
    \/ \E ok \in BOOLEAN : Except(ok)

RunSpec == SoloInit /\ [][RunNext]_vars

\* ------------------------------------------- a stream of new prompts
\* the limit of the scans, scaled to the table
ScanLimit == 1

\* created_at values renumbered 1, 2, ... in their order
DenseRanks(t) ==
    [p \in Prompts |->
        [t[p] EXCEPT !.created_at =
            Cardinality({t[q].created_at : q \in {q \in Prompts : t[q].created_at <= t[p].created_at}})]]

\* The producer inserts a prompt of the given type, newer than every prompt
\* in the table; it takes the place of a prompt whose handling is over, which
\* is left out of the table together with its artifact rows
Produce(p, type) ==
    /\ artifact_status[p] \in {"ready", "error"}
    /\ pc["svc"] \in {"idle", "done"} \/ \A i \in DOMAIN svc_prompts : svc_prompts[i] # p
    /\ LET newest == CHOOSE c \in 1..NumPrompts :
                        /\ \E q \in Prompts \ {p} : prompts[q].created_at = c
                        /\ \A q \in Prompts \ {p} : prompts[q].created_at <= c
       IN prompts' = DenseRanks([prompts EXCEPT ![p] =
                          [prompt_type |-> type, status |-> @.status, created_at |-> newest + 1,
                           tie |-> @.tie]])
    /\ artifact_status' = [artifact_status EXCEPT ![p] = "pending"]
    /\ error_message' = [error_message EXCEPT ![p] = None]
    /\ processing_since' = [processing_since EXCEPT ![p] = NULL]
    /\ invoked' = [invoked EXCEPT ![p] = <<>>]
    /\ prompt_artifacts' = SelectSeq(prompt_artifacts, LAMBDA a : a.prompt_id # p)
    /\ UNCHANGED <<processed_at, lyrics_json, rendered, write_call, config, main, writings, status_call, found, now, pc, cur, artifacts, saved,
                   exc, svc_prompts, runs, guiVars, last_reset, txn>>

\* The steps of the service, run again and again on a store that works
ServiceStep ==
    \/ process_pending_prompts(ScanLimit) /\ UNCHANGED runs
    \/ Claim("svc", TRUE)
    \/ \E result \in CollaboratorResults, files \in 0..MaxFiles, stderr \in ExitMessages :
          Generate("svc", result, files, stderr)
    \/ SaveArtifact("svc", TRUE)
    \/ MarkReady("svc", TRUE)
    \/ Except(TRUE)

StreamNext ==
    \/ ServiceStep
    \/ \E p \in Prompts, type \in PromptTypes : Produce(p, type)

\* The service is always started again and every run is carried through; the
\* producer may insert at any time or never
StreamSpec == PendingInit /\ [][StreamNext]_vars /\ WF_vars(ServiceStep)

\* =====================================================================
\* Properties
\* =====================================================================

\* C1: a save_artifacts_atomic(prompt_id, artifacts, final_status) call over a
\* batch of N >= 0 records ends either committed, with exactly the N records
\* appended to the rows that existed when it began and the prompt at
\* final_status, or raised, with no new row and the prompt's artifact_status
\* as it was when the call began.
C1_AllOrNothing ==
    [][/\ (txn.state = "open" /\ txn'.state # "open") =>
              txn'.state \in {"committed", "raised"}
       /\ (txn.state = "open" /\ txn'.state = "committed") =>
              /\ Len(prompt_artifacts') = txn.before.rows + Len(txn.artifacts)
              /\ SubSeq(prompt_artifacts', txn.before.rows + 1, Len(prompt_artifacts'))
                     = txn.artifacts
              /\ artifact_status'[txn.prompt_id] = txn.final_status
       /\ (txn.state = "open" /\ txn'.state = "raised") =>
              /\ Len(prompt_artifacts') = txn.before.rows
              /\ artifact_status'[txn.prompt_id] = txn.before.status
      ]_vars

\* C1 witness: a batch of two whose second insert failed after the first had
\* been executed, rolled back to the rows and the status of before the call
C1_Witness ==
    /\ txn.state = "raised"
    /\ Len(txn.artifacts) = 2
    /\ Len(txn.inserted) = 1
    /\ txn.before.rows = 1
    /\ Len(prompt_artifacts) = 1
    /\ artifact_status[txn.prompt_id] = txn.before.status
    /\ txn.final_status # txn.before.status

\* C2: a worker goes on to generate a prompt only if its claim performed the
\* pending -> processing transition, i.e. the row was still pending when the
\* claiming update ran; a worker that finds the prompt already claimed does
\* not generate it.
C2_OnlyOneClaims ==
    [][\A w \in Workers :
          (pc[w] = "claim" /\ pc'[w] = "generate") => artifact_status[cur[w]] = "pending"
      ]_vars

\* C3: every change of a prompt's artifact_status is pending -> processing,
\* processing -> ready, processing -> error or processing -> pending.
LifecycleTransitions ==
    {<<"pending", "processing">>, <<"processing", "ready">>,
     <<"processing", "error">>, <<"processing", "pending">>}

C3_OnlyLifecycleTransitions ==
    [][\A p \in Prompts :
          artifact_status'[p] # artifact_status[p] =>
              <<artifact_status[p], artifact_status'[p]>> \in LifecycleTransitions
      ]_vars

\* C4: once a reclaim sweep has run later than its timeout after a worker
\* set a prompt to processing and crashed, the prompt is no longer in
\* processing.
C4_CrashedClaimIsReclaimed ==
    \A p \in Prompts :
        ~ /\ pc["svc"] = "crashed"
          /\ cur["svc"] = p
          /\ artifact_status[p] = "processing"
          /\ processing_since[p] # NULL
          /\ last_reset.at # NULL
          /\ processing_since[p] < last_reset.at - last_reset.timeout

C6_NoRowsAfterFailedPersist ==
    pc["svc"] = "except" =>
        \A i \in 1..saved["svc"], j \in 1..Len(prompt_artifacts) :
            prompt_artifacts[j] # artifacts["svc"][i]

\* C7: every artifact row belongs to a prompt whose artifact_status is ready.
C7_RowsOnlyOfReadyPrompts ==
    \A j \in 1..Len(prompt_artifacts) :
        artifact_status[prompt_artifacts[j].prompt_id] = "ready"

\* C8: a failed generation is final: the collaborator is not invoked for a
\* prompt whose primary content record does not parse, it is not invoked
\* again after an invocation for the prompt has failed, and once the failure
\* has been handled the prompt is in error with an error_message.
FailedInvocation(r) == r[1] # "exit0" \/ r[2] = 0

BeingHandled(p) ==
    \/ \E w \in Workers : cur[w] = p
    \/ \E i \in 1..Len(after_queue) : after_queue[i].prompt = p

C8_FailuresAreFinal ==
    \A p \in Prompts :
        /\ writings[p][Len(writings[p])] = "malformed" => invoked[p] = <<>>
        /\ \A i \in 1..(Len(invoked[p]) - 1) : ~FailedInvocation(invoked[p][i])
        /\ (invoked[p] # <<>> /\ FailedInvocation(invoked[p][Len(invoked[p])])
                /\ ~BeingHandled(p)) =>
              (artifact_status[p] = "error" /\ error_message[p] # None)

\* C9: no exception leaves process_pending_prompts: the run reaches its end
\* with every prompt of its list handled.
C9_RunSurvivesFailures == pc["svc"] # "aborted"

\* C10: in a run of the service alone on a working store, an image prompt with
\* one valid content record for which the collaborator exited 0 after writing
\* k >= 1 files is, once the run has passed it, ready with exactly k artifact
\* rows, the i-th of type image with the path of the i-th file in the
\* prompt's output directory.
RowsOf(p) == SelectSeq(prompt_artifacts, LAMBDA a : a.prompt_id = p)

C10_EndToEnd ==
    \A p \in Prompts :
        (/\ prompt_type(p) = "image_prompt"
         /\ writings[p] = <<"object">>
         /\ invoked[p] # <<>>
         /\ invoked[p][Len(invoked[p])][1] = "exit0"
         /\ invoked[p][Len(invoked[p])][2] >= 1
         /\ cur["svc"] # p)
        => /\ artifact_status[p] = "ready"
           /\ Len(RowsOf(p)) = invoked[p][Len(invoked[p])][2]
           /\ \A i \in 1..Len(RowsOf(p)) :
                 /\ RowsOf(p)[i].artifact_type = "image"
                 /\ RowsOf(p)[i].file_path[2] = i
                 /\ RowsOf(p)[i].file_path[1][1] = "image"
                 /\ RowsOf(p)[i].file_path[1][2] = p

\* C10 witness: the run is over and left an image prompt ready with the two
\* rows of the two files the collaborator wrote
C10_Witness ==
    /\ pc["svc"] = "done"
    /\ \E p \in Prompts :
          /\ prompt_type(p) = "image_prompt"
          /\ writings[p] = <<"object">>
          /\ Len(invoked[p]) = 1
          /\ invoked[p][1][1] = "exit0"
          /\ invoked[p][1][2] = 2
          /\ artifact_status[p] = "ready"
          /\ Len(RowsOf(p)) = 2

\* C11: db_transaction commits only when its body has completed, and a
\* completed body is followed by the commit; whenever the body (or the commit)
\* raises, a database error or any other exception, none of the body's writes
\* is visible afterwards and the exception that leaves db_transaction is the
\* one that was raised, also when the rollback itself fails.
BodyCompleted == Len(txn.inserted) = Len(txn.artifacts) /\ txn.status_written

C11_CommitOrRollbackAndReraise ==
    [][/\ (txn.state = "open" /\ txn'.state = "committed") =>
              /\ BodyCompleted
              /\ prompt_artifacts' = prompt_artifacts \o txn.inserted
       /\ (txn.state = "open" /\ BodyCompleted /\ txn' # txn) =>
              \/ txn'.state = "committed"
              \/ txn'.state = "raised" /\ txn'.exc = DatabaseErrorMessage
       /\ (txn.state # "raised" /\ txn'.state = "raised") =>
              /\ prompt_artifacts' = prompt_artifacts
              /\ artifact_status' = artifact_status
              /\ error_message' = error_message
              /\ txn'.exc # None
              /\ txn'.raised = txn'.exc
      ]_vars

\* C11 witness: the body raised an exception that is not a database error
\* after one insert, the rollback failed, and the same exception came out
C11_Witness ==
    /\ txn.state = "raised"
    /\ Len(txn.inserted) = 1
    /\ txn.exc = TypeErrorMessage
    /\ ~txn.rollback_ok
    /\ txn.raised = TypeErrorMessage
    /\ Len(prompt_artifacts) = txn.before.rows

\* C12: a connection opened by db_transaction is open only while the
\* transaction is: after every exit (commit, exception in the body, failing
\* PRAGMA or BEGIN, failing commit, failing rollback) it is closed.
C12_ConnectionClosedOnExit ==
    /\ txn.conn = "open" => txn.state = "open"
    /\ txn.state = "open" => txn.conn = "open"
    /\ (txn.state \in {"committed", "raised"} /\ txn.conn # "none") => txn.conn = "closed"

\* C12 witness: the commit failed, then the rollback failed, and the
\* connection is closed
C12_Witness ==
    /\ txn.state = "raised"
    /\ txn.status_written
    /\ ~txn.rollback_ok
    /\ txn.conn = "closed"

\* C13: a checkpoint that is blocked or fails never turns a committed write
\* into a failure: force_wal_checkpoint returns False for a busy result and
\* for an exception and True otherwise, save_artifacts_atomic returns normally
\* after its commit whatever the checkpoint met, update_artifact_status lets
\* nothing out of its closing checkpoint, and in both cases the committed rows
\* and status stay as committed.
C13_CheckpointNeverFailsTheWrite ==
    [][/\ (txn.state = "committed" /\ txn' # txn) =>
              /\ txn'.state = "none"
              /\ txn'.checkpoint.result =
                     (IF txn'.checkpoint.outcome = "done" THEN "True" ELSE "False")
              /\ prompt_artifacts' = prompt_artifacts
              /\ artifact_status' = artifact_status
       /\ status_call' # status_call =>
              /\ status_call'.raised = None
              /\ artifact_status'[status_call'.prompt_id] = status_call'.status
              /\ prompt_artifacts' = prompt_artifacts
      ]_vars

\* C13 witness: a two-row batch is committed and in the table, the call has
\* returned, and its checkpoint had failed with an exception; the last
\* update_artifact_status call met a blocked checkpoint
C13_Witness ==
    /\ txn.state = "none"
    /\ txn.checkpoint = [mode |-> "RESTART", outcome |-> "error", result |-> "False"]
    /\ Len(prompt_artifacts) = 2
    /\ status_call.checkpoint = "busy"
    /\ status_call.raised = None
    /\ artifact_status[status_call.prompt_id] = status_call.status


\* the elements of a sequence
Range(f) == {f[i] : i \in DOMAIN f}

\* C14: a scan with a limit larger than the table returns exactly the pending
\* prompts of its type that have at least one content record of that type; a
\* pending prompt without such a record is not returned.
C14_FindReturnsEligible ==
    (found.type # "none" /\ found.limit > NumPrompts) =>
        Range(found.result) = {p \in Prompts : /\ found.seen[p] = "pending"
                                               /\ prompt_type(p) = found.type
                                               /\ writings[p] # <<>>}

C16_OlderPromptsNotStarved ==
    \A p \in Prompts : (artifact_status[p] = "pending") ~> (artifact_status[p] # "pending")

\* C16 witness: the service has claimed a prompt while a newer prompt of the
\* same type, inserted by the producer, is pending and has to wait
C16_Witness ==
    /\ pc["svc"] = "generate"
    /\ artifact_status[cur["svc"]] = "processing"
    /\ \E q \in Prompts :
          /\ q # cur["svc"]
          /\ artifact_status[q] = "pending"
          /\ prompt_type(q) = prompt_type(cur["svc"])
          /\ prompts[q].created_at > prompts[cur["svc"]].created_at

\* the primary (last) content record of the prompt is not a JSON object
Unparsable(p) ==
    /\ writings[p] # <<>>
    /\ writings[p][Len(writings[p])] \in {"malformed", "nonobject"}

\* C17: the collaborator is never invoked for a prompt whose primary content
\* record cannot be parsed, and once a run that handled it has returned the
\* prompt is in error.
C17_UnparsableContentFails ==
    \A p \in Prompts :
        Unparsable(p) =>
            /\ invoked[p] = <<>>
            /\ (pc["svc"] = "done" /\ runs > 0) => artifact_status[p] = "error"

\* C18: a prompt has a non-null error_message only while its artifact_status
\* is error.
C18_ErrorMessageOnlyInError ==
    \A p \in Prompts : error_message[p] # None => artifact_status[p] = "error"

\* the cap _on_task_error applies to the message it persists
ErrorMessageCap == 500

\* C19: every persisted error_message is at most 500 characters long,
\* whichever caller recorded the error.
C19_ErrorMessageBounded ==
    \A p \in Prompts : error_message[p].len <= ErrorMessageCap

\* C20: the GUI worker starts a task only when it is idle, its previous task
\* finished, and the task it starts is the one queued first; tasks are only
\* ever added at the tail of the queue, and the worker is inside a generation
\* only while a batch is in progress.
C20_OneGenerationAtATime ==
    /\ [](pc["gui"] \in {"claim", "generate", "save", "ready"} =>
            /\ is_generating
            /\ cur["gui"] \in Prompts)
    /\ [][/\ (pc'["gui"] = "claim" /\ pc["gui"] # "claim") =>
              /\ pc["gui"] = "idle"
              /\ cur["gui"] = 0
              /\ task_queue # <<>>
              /\ cur'["gui"] = Head(task_queue)
              /\ task_queue' = Tail(task_queue)
          /\ task_queue' # task_queue =>
              \/ /\ task_queue # <<>>
                 /\ task_queue' = Tail(task_queue)
              \/ /\ Len(task_queue') > Len(task_queue)
                 /\ SubSeq(task_queue', 1, Len(task_queue)) = task_queue
         ]_vars

\* C20 witness: the second task of a batch of two has been taken, after the
\* first one finished and its callback was scheduled or run
C20_Witness ==
    /\ pc["gui"] = "claim"
    /\ current_batch_total = 2
    /\ task_queue = <<>>
    /\ current_batch_success + current_batch_errors + Len(after_queue) = 1

\* C21: a request made in the GUI while a batch is being generated is put on
\* the queue behind the tasks already there: its pending prompts are appended
\* to task_queue, none is dropped.
C21_RequestQueuedBehind ==
    [][\A selection \in SUBSET Prompts :
          (/\ is_generating
           /\ prompts_to_generate(selection) # <<>>
           /\ generate_selected(selection))
          => task_queue' = task_queue \o prompts_to_generate(selection)
      ]_vars

\* nothing has been scanned, written or generated
Untouched ==
    /\ artifact_status = [p \in Prompts |-> "pending"]
    /\ error_message = [p \in Prompts |-> None]
    /\ prompt_artifacts = <<>>
    /\ invoked = [p \in Prompts |-> <<>>]
    /\ runs = 0
    /\ svc_prompts = <<>>
    /\ task_queue = <<>>
    /\ \A w \in Workers : pc[w] = "idle" /\ cur[w] = 0

\* C22: when validation reports an issue the program has exited with a
\* non-zero code and no scan, status write, artifact write or generation has
\* taken place, for the service and for the GUI.
C22_ValidationBlocksStartup ==
    (main.state # "not_started" /\ validate_config(config) # <<>>) =>
        /\ main.state = "exited"
        /\ main.exit_code = 1
        /\ main.issues = validate_config(config)
        /\ Untouched

\* C22 witness: launched with a missing database and a negative timeout, the
\* GUI has exited with both issues
C22_Witness ==
    /\ main.program = "gui"
    /\ main.state = "exited"
    /\ main.exit_code = 1
    /\ Len(main.issues) = 2
    /\ config.database_path = "missing"
    /\ config.timeout_seconds.value < 0

\* a configuration that passes every check other than the timeout's
OtherwiseValid(c) == validate_config([c EXCEPT !.timeout_seconds = ValidConfig.timeout_seconds]) = <<>>

\* C23: a timeout above 3600 seconds in an otherwise valid configuration does
\* not block startup: once main has run its validation the program is running
\* or has returned 0.
C23_HighTimeoutNotRejected ==
    (/\ main.state # "not_started"
     /\ OtherwiseValid(config)
     /\ config.timeout_seconds.kind = "number"
     /\ config.timeout_seconds.value > SuspiciousTimeout) =>
        main.exit_code # 1
\* the header the section is to be given: its number whenever it has one
SectionHeader(section) ==
    "[" \o capitalize(section.type)
        \o (IF section.number # NULL THEN " " \o ToString(section.number) ELSE "")
        \o "]"

\* C24: get_full_lyrics renders each section as its header line, "[Type N]"
\* when the section has a number and "[Type]" when it has none, then its text
\* and a line break, with one blank line between sections; the verse 1 "a",
\* chorus "b" structure gives "[Verse 1]\na\n\n[Chorus]\nb\n".
C24_FullLyricsRendering ==
    rendered.called = "get_full_lyrics" =>
        LET structure == LyricsPromptData_from_json(lyrics_json).structure
        IN /\ rendered.result =
                Join([i \in DOMAIN structure |->
                        SectionHeader(structure[i]) \o "\n" \o structure[i].lyrics \o "\n"],
                     "\n")
           /\ structure = <<[type |-> "verse", number |-> 1, lyrics |-> "a"],
                            [type |-> "chorus", number |-> NULL, lyrics |-> "b"]>>
                => rendered.result = "[Verse 1]\na\n\n[Chorus]\nb\n"

\* the lines the six summary fields are to give, in their order
SummaryLines(data) ==
    LET Line(label, value) == IF value # "" THEN <<Tag(label, value)>> ELSE <<>>
    IN Line("Genre", data.genre) \o Line("Mood", data.mood) \o Line("Tempo", data.tempo)
       \o Line("Key", data.key) \o Line("Vocal Style", data.vocal_style)
       \o Line("Instrumentation", Join(data.instrumentation, ", "))
SummaryLabels == {"Genre", "Mood", "Tempo", "Key", "Vocal Style", "Instrumentation"}
PopHappy == [NoPayload EXCEPT !.genre = Member("Pop"), !.mood = Member("Happy")]

\* C25: the lines get_tags_string gives for genre, mood, tempo, key, vocal
\* style and instrumentation are one per non-empty field, in that order, and
\* none for an empty field; a payload parsed from JSON that sets only genre
\* Pop and mood Happy gives exactly "Genre: Pop" and "Mood: Happy".
C25_TagsOnePerNonEmptyField ==
    rendered.called = "get_tags_string" =>
        LET data == LyricsPromptData_from_json(lyrics_json)
        IN /\ SelectSeq(rendered.parts, LAMBDA t : t.label \in SummaryLabels) = SummaryLines(data)
           /\ \A i \in DOMAIN rendered.parts : rendered.parts[i].value # ""
           /\ lyrics_json = PopHappy => rendered.result = "Genre: Pop\nMood: Happy"

\* C25 witness: the tags of the payload with only genre Pop and mood Happy
\* have been rendered as two lines
C25_Witness ==
    /\ rendered.called = "get_tags_string"
    /\ lyrics_json = PopHappy
    /\ rendered.parts = <<Tag("Genre", "Pop"), Tag("Mood", "Happy")>>
\* C26: two prompts of the scanned type that differ only in their upstream
\* status are treated alike: a scan with a limit larger than the table returns
\* both or neither, and is_pending gives the same answer for their records.
C26_PendingIgnoresUpstreamStatus ==
    (found.type # "none" /\ found.limit > NumPrompts) =>
        \A p, q \in Prompts :
            (/\ prompt_type(p) = found.type
             /\ prompt_type(q) = found.type
             /\ found.seen[p] = found.seen[q]
             /\ writings[p] = writings[q]) =>
                /\ p \in Range(found.result) <=> q \in Range(found.result)
                /\ is_pending(PromptRecord(p, found.seen)) = is_pending(PromptRecord(q, found.seen))
\* C27: when db_transaction has left with an exception and its rollback
\* failed, the exception that reached the caller is the one that was raised
\* in the transaction, not the rollback's failure, and the connection is
\* closed.
C27_RollbackFailureDoesNotMask ==
    (txn.state = "raised" /\ ~txn.rollback_ok) =>
        /\ txn.raised = txn.exc
        /\ txn.raised # RollbackErrorMessage
        /\ txn.conn = "closed"

\* C27 witness: the first statement of the body raised a database error, the
\* rollback failed, the database error came out and the connection is closed
C27_Witness ==
    /\ txn.state = "raised"
    /\ txn.inserted = <<>>
    /\ ~txn.status_written
    /\ txn.exc = DatabaseErrorMessage
    /\ ~txn.rollback_ok
    /\ txn.raised = DatabaseErrorMessage
    /\ txn.conn = "closed"
\* C28: every committed write is followed by a checkpoint attempt before the
\* operation returns: a PASSIVE one when update_artifact_status, save_artifact
\* or reset_stale_processing_prompts returns after its commit, a RESTART or
\* TRUNCATE one when save_artifacts_atomic returns after its commit, and none
\* when the batch was rolled back.
C28_CheckpointAfterEveryWrite ==
    [][/\ (/\ write_call.state = "committed"
           /\ write_call'.state = "returned"
           /\ write_call.op = "reset_stale_processing_prompts" => last_reset.count > 0) =>
              write_call'.checkpoint.mode = "PASSIVE"
       /\ (txn.state = "committed" /\ txn'.state = "none") =>
              txn'.checkpoint.mode \in {"RESTART", "TRUNCATE"}
       /\ (txn.state = "raised" /\ txn.checkpoint = NoCheckpoint /\ txn'.state = "none") =>
              txn'.checkpoint = NoCheckpoint
      ]_vars

\* C29: a repository write whose transaction has begun holds the write lock
\* of the store before its first statement is executed, and a write that
\* failed on the lock had executed none of its statements.
C29_WriteLockAtStart ==
    /\ (write_call.state = "begun" /\ write_call.statements = 0) => write_call.holds_lock
    /\ write_call.state = "raised" => write_call.statements = 0
\* C30: no two generation attempts, of one prompt or of two, were given the
\* same output directory.
C30_AttemptsNeverShareDirectory ==
    \A p, q \in Prompts : \A i \in DOMAIN invoked[p], j \in DOMAIN invoked[q] :
        (p # q \/ i # j) => invoked[p][i][3] # invoked[q][j][3]
\* PromptRecord.primary_writing: the content record ordered last
primary_writing(ws) == ws[Len(ws)]

\* C31: whenever the collaborator has been invoked for a prompt, the payload
\* it was given is the content of the prompt's primary content record, the
\* one ordered last; the content of an earlier record is never used.
C31_PayloadFromPrimaryRecord ==
    \A p \in Prompts :
        invoked[p] # <<>> =>
            /\ writings[p] # <<>>
            /\ primary_writing(writings[p]) # "malformed"
            /\ get_json_prompt(writings[p]) = primary_writing(writings[p])
\* C32: artifact rows are immutable: every step leaves each row that existed
\* before it in the table, in its place and with its content; rows are only
\* added behind them.
C32_ArtifactRowsImmutable ==
    [][/\ Len(prompt_artifacts') >= Len(prompt_artifacts)
       /\ SubSeq(prompt_artifacts', 1, Len(prompt_artifacts)) = prompt_artifacts
      ]_vars

\* C32 witness: the rows of a prompt that is now ready are still first in the
\* table after the rows of another prompt were inserted behind them
C32_Witness ==
    /\ Len(prompt_artifacts) >= 3
    /\ artifact_status[prompt_artifacts[1].prompt_id] = "ready"
    /\ prompt_artifacts[1].prompt_id = prompt_artifacts[2].prompt_id
    /\ prompt_artifacts[Len(prompt_artifacts)].prompt_id # prompt_artifacts[1].prompt_id
\* C33: in the GUI, while is_generating is False the task queue is empty and
\* the worker is idle; while a batch runs the counted results never exceed
\* the batch total; and a generate_selected call made while is_generating is
\* True enqueues no task and leaves the three batch counters as they were.
C33_BatchBookkeeping ==
    /\ [](~is_generating => (task_queue = <<>> /\ pc["gui"] = "idle" /\ cur["gui"] = 0))
    /\ [](is_generating => current_batch_success + current_batch_errors <= current_batch_total)
    /\ [][\A selection \in SUBSET Prompts :
             (is_generating /\ generate_selected(selection)) =>
                 /\ task_queue' = task_queue
                 /\ current_batch_total' = current_batch_total
                 /\ current_batch_success' = current_batch_success
                 /\ current_batch_errors' = current_batch_errors
                 /\ is_generating'
         ]_vars

\* C33 witness: a request was turned away while the second task of a batch of
\* two was being generated, the first one counted
C33_Witness ==
    /\ dialog = "Generation In Progress"
    /\ is_generating
    /\ pc["gui"] = "generate"
    /\ current_batch_total = 2
    /\ current_batch_success + current_batch_errors = 1
    /\ task_queue = <<>>
\* C34: every batch that was started completes: is_generating returns to
\* False, and at the step that ends the batch every task has been taken and
\* finished, the result counted last brings success + errors to the batch
\* total, no callback of the batch is left to run _on_batch_complete again,
\* and the result box is shown; a batch starts with as many queued tasks as
\* its total, at least one.
C34_BatchCompletes ==
    /\ is_generating ~> ~is_generating
    /\ [][/\ (is_generating /\ ~is_generating') =>
              /\ task_queue = <<>>
              /\ pc["gui"] = "idle"
              /\ Len(after_queue) = 1
              /\ after_queue' = <<>>
              /\ current_batch_success + current_batch_errors + 1 = current_batch_total
              /\ dialog' \in {"Success", "Partial Success"}
          /\ (~is_generating /\ is_generating') =>
              /\ current_batch_total' >= 1
              /\ Len(task_queue') = current_batch_total'
         ]_vars

\* C34 witness: a batch of two has completed after one of its tasks failed
\* and the other succeeded
C34_Witness ==
    /\ ~is_generating
    /\ dialog = "Partial Success"
    /\ \E p, q \in Prompts : artifact_status[p] = "error" /\ artifact_status[q] = "ready"
    /\ \A p \in Prompts : invoked[p] # <<>>
\* C35: when process_pending_prompts has returned normally and nothing else
\* writes to the store, no prompt is left in processing: every prompt the
\* run took is ready or in error; and a prompt becomes ready only once every
\* artifact record of its generation is in the table.
C35_RunLeavesNoProcessing ==
    /\ [](pc["svc"] = "done" =>
            \A p \in Prompts :
                /\ artifact_status[p] # "processing"
                /\ processing_since[p] # NULL => artifact_status[p] \in {"ready", "error"})
    /\ [][\A p \in Prompts :
             (artifact_status[p] # "ready" /\ artifact_status'[p] = "ready") =>
                 /\ cur["svc"] = p
                 /\ saved["svc"] = Len(artifacts["svc"])
                 /\ \A i \in DOMAIN artifacts["svc"] :
                        \E k \in DOMAIN prompt_artifacts : prompt_artifacts[k] = artifacts["svc"][i]
         ]_vars

\* C35 witness: a run has returned after a prompt whose generation failed and
\* a prompt whose two files were both recorded
C35_Witness ==
    /\ pc["svc"] = "done"
    /\ \E p, q \in Prompts :
          /\ artifact_status[p] = "error"
          /\ processing_since[p] # NULL
          /\ artifact_status[q] = "ready"
          /\ Len(RowsOf(q)) = 2
\* ------------------------------------------- update_artifact_status calls
\* an id that matches no row of prompts
UnknownId == NumPrompts + 1

\* the error_message arguments of a call: none, the empty string, a text
MessageChoices == {None, EmptyMessage, TimeoutMessage}

\* A store holding prompts in every artifact_status, a message on those in
\* error, an artifact row for those that are ready
UpdateInit ==
    /\ SweepInit
    /\ processed_at = [p \in Prompts |-> 0]

\* update_artifact_status called with any id, status and message
UpdateNext ==
    \E p \in Prompts \cup {UnknownId}, status \in Statuses, message \in MessageChoices,
       outcome \in CheckpointOutcomes :
        StatusWrite(p, status, message, outcome)

UpdateSpec == UpdateInit /\ [][UpdateNext]_vars

\* C36: after update_artifact_status(p, 'error', m) the stored error_message
\* of p is m, for every string m, the empty string included; an earlier
\* message is never kept.
C36_ErrorMessageIsTheOneGiven ==
    [][(/\ status_call' # status_call
        /\ status_call'.status = "error"
        /\ status_call'.message # None
        /\ status_call'.prompt_id \in Prompts)
         => error_message'[status_call'.prompt_id] = status_call'.message]_vars

\* C37: a call of update_artifact_status for prompt p changes artifact_status
\* of p, and error_message of p when a message is given, and nothing else:
\* every other prompt, every other column (the upstream status among them)
\* and the artifact rows are as before; with an id that matches no prompt
\* nothing changes and the call returns without an error.
C37_UpdateTouchesOnlyItsRow ==
    [][status_call' # status_call =>
          LET p == status_call'.prompt_id
          IN /\ \A q \in Prompts \ {p} : /\ artifact_status'[q] = artifact_status[q]
                                         /\ error_message'[q] = error_message[q]
             /\ (p \in Prompts /\ status_call'.message = None)
                    => error_message'[p] = error_message[p]
             /\ p \in Prompts => artifact_status'[p] = status_call'.status
             /\ prompts' = prompts
             /\ processed_at' = processed_at
             /\ writings' = writings
             /\ prompt_artifacts' = prompt_artifacts
             /\ p \notin Prompts => /\ artifact_status' = artifact_status
                                    /\ error_message' = error_message
                                    /\ status_call'.raised = None]_vars

\* C37 witness: prompt 1 was put in error with a message by a call, prompt 2
\* is ready without a message and has its artifact row, and the last call
\* asked for 'processing' with a message under an id that matches no prompt
C37_Witness ==
    /\ status_call.prompt_id = UnknownId
    /\ status_call.status = "processing"
    /\ status_call.message = TimeoutMessage
    /\ status_call.raised = None
    /\ artifact_status[1] = "error"
    /\ error_message[1] = TimeoutMessage
    /\ artifact_status[2] = "ready"
    /\ error_message[2] = None
    /\ \E i \in DOMAIN prompt_artifacts : prompt_artifacts[i].prompt_id = 2
\* C38: every connection opened through get_connection() by
\* update_artifact_status, reset_stale_processing_prompts and save_artifact
\* (and by the queries, which use the same `with` block) is closed when the
\* operation has returned or raised.
C38_ConnectionClosedAtExit ==
    write_call.state \in {"returned", "raised"} => write_call.connection = "closed"
====
